---------------------------- MODULE Spec2Model ----------------------------
(***************************************************************************)
(* Model of the Gemini Lens photo editor: the App component's session and  *)
(* history store (src/unnamed/part_000, lines 211-392) and the single      *)
(* asynchronous call it makes to performImageEdit (lines 14-130).          *)
(*                                                                         *)
(* A data URL "data:<mime>;base64,<payload>" is the record                 *)
(* [mime |-> <mime>, data |-> <payload>]; a MIME type "<top>/<sub>" is the *)
(* record [top |-> <top>, sub |-> <sub>].  historyIndex is 0-based as in   *)
(* the source; TLA+ sequences are 1-based, so history[i] of the source is  *)
(* img.history[i + 1] here (see HistAt).                                   *)
(***************************************************************************)
EXTENDS Integers, Sequences, FiniteSets, TLC

VARIABLES
    images,           \* useState<ImageState[]>            (line 213)
    activeImageId,    \* useState<string | null>           (line 214)
    processing,       \* useState<ProcessingState>         (lines 217-221)
    selectedBgColor,  \* useState<string>                  (line 225)
    customBgImage,    \* useState<string | null>           (line 226)
    cropConfig,       \* useState<CropSettings>            (line 229)
    pendingReads,     \* FileReader loads started by handleFileUpload, not yet loaded
    calls,            \* invocations of performImageEdit, suspended at an await
    renders,          \* images generateFinalImage is loading (img.src set, line 451)
    canvas,           \* the hidden canvas of canvasRef   (lines 233, 501)
    lastOp            \* history variable: the handler that ran last, and on which image

vars == <<images, activeImageId, processing, selectedBgColor, customBgImage,
          cropConfig, pendingReads, calls, renders, canvas, lastOp>>

\* What the export path alone writes.
exportState == <<renders, canvas>>

\* JavaScript null / undefined, where an object is expected (an image, a data URL,
\* a ratio, a response field) and where a string is expected (an id, a message).
NULL == [null |-> TRUE]
NULL_S == "null"

-----------------------------------------------------------------------------
(* Bounds of the model. *)

\* Sessions created in one run (files read by handleFileUpload).
MaxImages == 2
\* History entries held by all sessions together, an AI call in flight counted
\* as the entry it may add.
MaxEntries == 4

-----------------------------------------------------------------------------
(* Input sets. *)

Mime(top, sub) == [top |-> top, sub |-> sub]

\* Files the user can pick in the file dialog: an image and a non-image.
Files ==
    { [name |-> "a.png", type |-> Mime("image", "png"),  data |-> "a"],
      [name |-> "n.txt", type |-> Mime("text", "plain"), data |-> "n"] }

\* Identifiers Math.random().toString(36).substr(2, 9) yields (line 250).  The
\* code only compares identifiers for equality, so the n-th session of a run is
\* given the n-th name: the draws are taken to be distinct.
IdNames == << "id1", "id2", "id3", "id4", "id5", "id6" >>
ImageIds == { IdNames[n] : n \in 1..MaxImages }

\* Files offered to the custom-background input (handleBgUpload, line 384).
BgFiles == { [name |-> "bg.png", type |-> Mime("image", "png"), data |-> "g"] }

\* Swatches clicked in the model, two of BACKGROUND_OPTIONS (lines 142-150).
ColorInputs == { "#ffffff", "#000000" }

\* Aspect-ratio buttons clicked in the model, two of ASPECT_RATIOS (lines 152-158):
\* Free (null) and Square, a ratio being [num, den].
RatioInputs == { NULL, [num |-> 1, den |-> 1] }

-----------------------------------------------------------------------------
(* src/types.ts *)

EditMode ==
    [ PIXEL_ART  |-> "Pixel Art",
      ANIME      |-> "Anime Style",
      REMOVE_BG  |-> "Remove Background",
      REPLACE_BG |-> "Replace Background",
      ENHANCE    |-> "AI Enhance",
      NONE       |-> "None" ]

FilterType ==
    [ NONE      |-> "Normal",
      GRAYSCALE |-> "Grayscale",
      SEPIA     |-> "Sepia",
      VINTAGE   |-> "Vintage",
      BLUR      |-> "Blur" ]

\* The keys of interface Adjustments.
AdjustmentKeys == { "brightness", "contrast", "saturation", "blur" }

DEFAULT_ADJUSTMENTS ==
    [brightness |-> 100, contrast |-> 100, saturation |-> 100, blur |-> 0]

\* Filter buttons pressed in the model (Object.values(FilterType), line 650).
FilterInputs == { FilterType.GRAYSCALE }

\* Slider moves made in the model: <<key, value>> (lines 641-644).
AdjustInputs == { <<"brightness", 150>> }

\* AI buttons pressed in the model (lines 569-632).
ModeInputs == { EditMode.REMOVE_BG, EditMode.REPLACE_BG }

-----------------------------------------------------------------------------
(* Data URLs *)

\* FileReader.readAsDataURL: "data:<type>;base64,<bytes>".
readAsDataURL(file) == [mime |-> file.type, data |-> file.data]

\* dataUrl.split(',')[1]: what follows the first comma.
stripBase64Prefix(dataUrl) == dataUrl.data

\* file.type.startsWith('image/')
IsImageType(type) == type.top = "image"

-----------------------------------------------------------------------------
(* The session store: App, lines 236-346 *)

\* const activeImage = images.find(img => img.id === activeImageId)   (line 236)
\* find returns the first match, or undefined.
activeImage ==
    IF \E i \in DOMAIN images : images[i].id = activeImageId
    THEN LET first == CHOOSE i \in DOMAIN images :
                         /\ images[i].id = activeImageId
                         /\ \A j \in DOMAIN images : images[j].id = activeImageId => i <= j
         IN  images[first]
    ELSE NULL

\* history[i] of the source (0-based).
HistAt(img, i) == img.history[i + 1]

\* The triple a history entry records, taken from the session's visible fields.
Visible(img) ==
    [current |-> img.current, adjustments |-> img.adjustments, filter |-> img.filter]

\* The ImageState literal of reader.onload (lines 249-264).
newImg(id, file) ==
    LET base64 == readAsDataURL(file)
    IN  [ id           |-> id,
          name         |-> file.name,
          original     |-> base64,
          current      |-> base64,
          thumbnail    |-> base64,
          mimeType     |-> file.type,
          adjustments  |-> DEFAULT_ADJUSTMENTS,
          filter       |-> FilterType.NONE,
          history      |-> << [ current     |-> base64,
                                adjustments |-> DEFAULT_ADJUSTMENTS,
                                filter      |-> FilterType.NONE ] >>,
          historyIndex |-> 0 ]

\* Faulty variant of Coalesce: a field newState lacks is taken from the entry
\* under the cursor.
CoalesceFromCursor(newState, img, k) ==
    IF k \in DOMAIN newState THEN newState[k] ELSE img.history[img.historyIndex + 1][k]

\* newState.k ?? img.k, newState being a Partial<ImageState>: a record that
\* holds some of the fields.
Coalesce(newState, img, k) ==
    IF k \in DOMAIN newState THEN newState[k] ELSE img[k]

\* Faulty variant of Spread: the new state is not spread over the image.
SpreadDropsNewState(img, newState) == img

\* { ...img, ...newState }
Spread(img, newState) ==
    [k \in DOMAIN img |-> IF k \in DOMAIN newState THEN newState[k] ELSE img[k]]

\* Faulty variant of pushHistoryImg: the cursor is set to the new length, not to the
\* new last index.
pushHistoryImgCursorPastEnd(img, newState) ==
    LET newHistoryItem ==
            [ current     |-> Coalesce(newState, img, "current"),
              adjustments |-> Coalesce(newState, img, "adjustments"),
              filter      |-> Coalesce(newState, img, "filter") ]
        newHistory ==
            Append(SubSeq(img.history, 1, img.historyIndex + 1), newHistoryItem)
    IN  [ Spread(img, newState) EXCEPT
            !.history      = newHistory,
            !.historyIndex = Len(newHistory) ]

\* Faulty variant of pushHistoryImg: the history is not sliced at the cursor.
pushHistoryImgKeepsTail(img, newState) ==
    LET newHistoryItem ==
            [ current     |-> Coalesce(newState, img, "current"),
              adjustments |-> Coalesce(newState, img, "adjustments"),
              filter      |-> Coalesce(newState, img, "filter") ]
        newHistory == Append(img.history, newHistoryItem)
    IN  [ Spread(img, newState) EXCEPT
            !.history      = newHistory,
            !.historyIndex = Len(newHistory) - 1 ]

\* Faulty variant of pushHistoryImg: the new entry takes the place of the entry
\* under the cursor.
pushHistoryImgOverCursor(img, newState) ==
    LET newHistoryItem ==
            [ current     |-> Coalesce(newState, img, "current"),
              adjustments |-> Coalesce(newState, img, "adjustments"),
              filter      |-> Coalesce(newState, img, "filter") ]
        newHistory ==
            Append(SubSeq(img.history, 1, img.historyIndex), newHistoryItem)
    IN  [ Spread(img, newState) EXCEPT
            !.history      = newHistory,
            !.historyIndex = Len(newHistory) - 1 ]

\* Faulty variant of pushHistoryImg: the slice starts after the first entry.
pushHistoryImgDropsSeed(img, newState) ==
    LET newHistoryItem ==
            [ current     |-> Coalesce(newState, img, "current"),
              adjustments |-> Coalesce(newState, img, "adjustments"),
              filter      |-> Coalesce(newState, img, "filter") ]
        newHistory ==
            Append(SubSeq(img.history, 2, img.historyIndex + 1), newHistoryItem)
    IN  [ Spread(img, newState) EXCEPT
            !.history      = newHistory,
            !.historyIndex = Len(newHistory) - 1 ]

\* The body of pushHistory's map callback for the matching image (lines 282-294).
pushHistoryImg(img, newState) ==
    LET newHistoryItem ==
            [ current     |-> Coalesce(newState, img, "current"),
              adjustments |-> Coalesce(newState, img, "adjustments"),
              filter      |-> Coalesce(newState, img, "filter") ]
        newHistory ==
            Append(SubSeq(img.history, 1, img.historyIndex + 1), newHistoryItem)
    IN  [ Spread(img, newState) EXCEPT
            !.history      = newHistory,
            !.historyIndex = Len(newHistory) - 1 ]

\* Faulty variant of pushHistory: the id is not tested, every session commits.
pushHistoryToAll(newState, imageId) ==
    [ i \in DOMAIN images |-> pushHistoryImg(images[i], newState) ]

\* pushHistory(newState, imageId): the new value of images (lines 279-298).
pushHistory(newState, imageId) ==
    [ i \in DOMAIN images |->
        IF images[i].id = imageId
        THEN pushHistoryImg(images[i], newState)
        ELSE images[i] ]

\* Faulty variant of undoImg: the adjustments of the entry are not restored.
undoImgKeepsAdjustments(img) ==
    IF img.historyIndex <= 0 THEN img
    ELSE LET prevIndex       == img.historyIndex - 1
             historicalState == img.history[prevIndex + 1]
         IN  [ img EXCEPT
                 !.current      = historicalState.current,
                 !.filter       = historicalState.filter,
                 !.historyIndex = prevIndex ]

\* Faulty variant of undoImg: the guard stops one entry early.
undoImgStopsAtOne(img) ==
    IF img.historyIndex <= 1 THEN img
    ELSE LET prevIndex       == img.historyIndex - 1
             historicalState == img.history[prevIndex + 1]
         IN  [ img EXCEPT
                 !.current      = historicalState.current,
                 !.adjustments  = historicalState.adjustments,
                 !.filter       = historicalState.filter,
                 !.historyIndex = prevIndex ]

\* Faulty variant of undoImg: undo jumps to the first entry.
undoImgToStart(img) ==
    IF img.historyIndex <= 0 THEN img
    ELSE LET prevIndex       == 0
             historicalState == img.history[prevIndex + 1]
         IN  [ img EXCEPT
                 !.current      = historicalState.current,
                 !.adjustments  = historicalState.adjustments,
                 !.filter       = historicalState.filter,
                 !.historyIndex = prevIndex ]

\* undo's new value of the image it acts on (lines 301-310); the image itself
\* when the guard of line 301 returns early.
undoImg(img) ==
    IF img.historyIndex <= 0 THEN img
    ELSE LET prevIndex       == img.historyIndex - 1
             historicalState == HistAt(img, prevIndex)
         IN  [ img EXCEPT
                 !.current      = historicalState.current,
                 !.adjustments  = historicalState.adjustments,
                 !.filter       = historicalState.filter,
                 !.historyIndex = prevIndex ]

\* Faulty variant of redoImg: the adjustments of the entry are not restored.
redoImgKeepsAdjustments(img) ==
    IF img.historyIndex >= Len(img.history) - 1 THEN img
    ELSE LET nextIndex       == img.historyIndex + 1
             historicalState == img.history[nextIndex + 1]
         IN  [ img EXCEPT
                 !.current      = historicalState.current,
                 !.filter       = historicalState.filter,
                 !.historyIndex = nextIndex ]

\* Faulty variant of redoImg: redo jumps to the last entry.
redoImgToEnd(img) ==
    IF img.historyIndex >= Len(img.history) - 1 THEN img
    ELSE LET nextIndex       == Len(img.history) - 1
             historicalState == img.history[nextIndex + 1]
         IN  [ img EXCEPT
                 !.current      = historicalState.current,
                 !.adjustments  = historicalState.adjustments,
                 !.filter       = historicalState.filter,
                 !.historyIndex = nextIndex ]

\* redo's new value of the image it acts on (lines 314-323).
redoImg(img) ==
    IF img.historyIndex >= Len(img.history) - 1 THEN img
    ELSE LET nextIndex       == img.historyIndex + 1
             historicalState == HistAt(img, nextIndex)
         IN  [ img EXCEPT
                 !.current      = historicalState.current,
                 !.adjustments  = historicalState.adjustments,
                 !.filter       = historicalState.filter,
                 !.historyIndex = nextIndex ]

\* Faulty variant of updateAdjustmentImg: the change is committed to the history.
updateAdjustmentImgCommits(img, key, value) ==
    pushHistoryImg(img, [adjustments |-> [img.adjustments EXCEPT ![key] = value]])

\* updateAdjustment's new value of the image it acts on (lines 334-337).
updateAdjustmentImg(img, key, value) ==
    [ img EXCEPT !.adjustments = [img.adjustments EXCEPT ![key] = value] ]

-----------------------------------------------------------------------------
(* The model invocation adapter: performImageEdit, lines 14-130 *)

\* Model identifiers (lines 37, 74, 85).
FLASH_MODEL == "gemini-2.5-flash-image"
PRO_MODEL   == "gemini-3-pro-image-preview"

\* Prompts are sequences of text fragments, so that a template's inserted value
\* and a phrase of interest stay visible in the text.
PIXEL_ART_PROMPT ==
    << "Convert this image into a pixel art style. Maintain the original subject and composition but render it with clear pixelation and vibrant colors appropriate for pixel art video games." >>
ANIME_PROMPT ==
    << "Transform this image into a high-quality anime style illustration. Use distinct line work, shading, and anime aesthetic while keeping the subject recognizable." >>
REMOVE_BG_PROMPT ==
    << "Isolate the main subject of this image and place it on a ",
       "pure solid white background",
       ". Ensure the edges are clean and precise." >>
COMPOSITE_PROMPT ==
    << "Composite the subject from the ", "first image",
       " onto the background provided in the ", "second image",
       ". Adjust lighting and shadows of the subject to match the new environment realistically." >>
ColorPrompt(backgroundColor) ==
    << "Isolate the main subject of this image and place it on a background with the color/style: ",
       backgroundColor,
       ". Ensure realistic integration." >>
SCENIC_PROMPT ==
    << "Place the subject of this image into a scenic outdoor environment." >>
ENHANCE_PROMPT ==
    << "Recreate this image in ultra-high resolution (4K). Enhance fine details, textures, and lighting clarity significantly. Fix any blurriness or noise. Make it look like a professional photograph." >>

\* JavaScript truthiness of an object-or-null and of a string-or-null value.
Truthy(v) == v # NULL
TruthyString(v) == v # NULL_S /\ v # ""

InlinePart(mimeType, data) == [inlineData |-> [mimeType |-> mimeType, data |-> data]]
TextPart(text) == [text |-> text]

\* Faulty variant of Selection: ENHANCE keeps the default model.
SelectionEnhanceDefaultModel(mode, options) ==
    LET none == [model |-> FLASH_MODEL, prompt |-> << >>, imageConfig |-> NULL, extra |-> << >>]
    IN  CASE mode = EditMode.PIXEL_ART -> [none EXCEPT !.prompt = PIXEL_ART_PROMPT]
          [] mode = EditMode.ANIME     -> [none EXCEPT !.prompt = ANIME_PROMPT]
          [] mode = EditMode.REMOVE_BG -> [none EXCEPT !.prompt = REMOVE_BG_PROMPT]
          [] mode = EditMode.REPLACE_BG ->
                IF Truthy(options.backgroundImage)
                THEN [none EXCEPT
                        !.extra  = << InlinePart(options.backgroundImage.mime,
                                                 stripBase64Prefix(options.backgroundImage)) >>,
                        !.prompt = COMPOSITE_PROMPT,
                        !.model  = PRO_MODEL]
                ELSE IF TruthyString(options.backgroundColor)
                THEN [none EXCEPT !.prompt = ColorPrompt(options.backgroundColor)]
                ELSE [none EXCEPT !.prompt = SCENIC_PROMPT]
          [] mode = EditMode.ENHANCE ->
                [none EXCEPT
                   !.prompt      = ENHANCE_PROMPT,
                   !.imageConfig = [imageSize |-> "4K", aspectRatio |-> "1:1"]]
          [] OTHER -> none

\* Faulty variant of Selection: for REPLACE_BG the background colour is tested
\* before the background image.
SelectionColorFirst(mode, options) ==
    LET none == [model |-> FLASH_MODEL, prompt |-> << >>, imageConfig |-> NULL, extra |-> << >>]
    IN  CASE mode = EditMode.PIXEL_ART -> [none EXCEPT !.prompt = PIXEL_ART_PROMPT]
          [] mode = EditMode.ANIME     -> [none EXCEPT !.prompt = ANIME_PROMPT]
          [] mode = EditMode.REMOVE_BG -> [none EXCEPT !.prompt = REMOVE_BG_PROMPT]
          [] mode = EditMode.REPLACE_BG ->
                IF TruthyString(options.backgroundColor)
                THEN [none EXCEPT !.prompt = ColorPrompt(options.backgroundColor)]
                ELSE IF Truthy(options.backgroundImage)
                THEN [none EXCEPT
                        !.extra  = << InlinePart(options.backgroundImage.mime,
                                                 stripBase64Prefix(options.backgroundImage)) >>,
                        !.prompt = COMPOSITE_PROMPT,
                        !.model  = PRO_MODEL]
                ELSE [none EXCEPT !.prompt = SCENIC_PROMPT]
          [] mode = EditMode.ENHANCE ->
                [none EXCEPT
                   !.model       = PRO_MODEL,
                   !.prompt      = ENHANCE_PROMPT,
                   !.imageConfig = [imageSize |-> "4K", aspectRatio |-> "1:1"]]
          [] OTHER -> none

\* The mode switch (lines 37-92): the model, the prompt, the image configuration
\* and the background part pushed for a custom background.
Selection(mode, options) ==
    LET none == [model |-> FLASH_MODEL, prompt |-> << >>, imageConfig |-> NULL, extra |-> << >>]
    IN  CASE mode = EditMode.PIXEL_ART -> [none EXCEPT !.prompt = PIXEL_ART_PROMPT]
          [] mode = EditMode.ANIME     -> [none EXCEPT !.prompt = ANIME_PROMPT]
          [] mode = EditMode.REMOVE_BG -> [none EXCEPT !.prompt = REMOVE_BG_PROMPT]
          [] mode = EditMode.REPLACE_BG ->
                IF Truthy(options.backgroundImage)
                THEN [none EXCEPT
                        !.extra  = << InlinePart(options.backgroundImage.mime,
                                                 stripBase64Prefix(options.backgroundImage)) >>,
                        !.prompt = COMPOSITE_PROMPT,
                        !.model  = PRO_MODEL]
                ELSE IF TruthyString(options.backgroundColor)
                THEN [none EXCEPT !.prompt = ColorPrompt(options.backgroundColor)]
                ELSE [none EXCEPT !.prompt = SCENIC_PROMPT]
          [] mode = EditMode.ENHANCE ->
                [none EXCEPT
                   !.model       = PRO_MODEL,
                   !.prompt      = ENHANCE_PROMPT,
                   !.imageConfig = [imageSize |-> "4K", aspectRatio |-> "1:1"]]
          [] OTHER -> none

\* The argument of ai.models.generateContent (lines 42-49, 95, 98-106).
Request(imageBase64, mimeType, mode, options) ==
    LET sel == Selection(mode, options)
    IN  [ model  |-> sel.model,
          parts  |-> << InlinePart(mimeType, stripBase64Prefix(imageBase64)) >>
                     \o sel.extra \o << TextPart(sel.prompt) >>,
          config |-> [imageConfig |-> sel.imageConfig] ]

\* The modes for which the host's key selection runs first (line 23).
NeedsKeySelection(mode) == mode \in {EditMode.ENHANCE, EditMode.REPLACE_BG}

\* A JavaScript array that may also be null: [array |-> <sequence>] or NULL.
Array(seq) == [array |-> seq]

\* A response of generateContent: candidates is NULL or an array of candidates,
\* a candidate's content NULL or [parts |-> NULL or an array of parts].
Response(parts) == [candidates |-> Array(<< [content |-> [parts |-> Array(parts)]] >>)]
ImagePart(data) == [inlineData |-> [mimeType |-> Mime("image", "png"), data |-> data]]

\* part.inlineData && part.inlineData.data   (line 113)
HasImage(part) ==
    /\ "inlineData" \in DOMAIN part
    /\ part.inlineData # NULL
    /\ TruthyString(part.inlineData.data)

\* Faulty variant of FirstImage: the loop has no break, the payload of the last
\* part that has one is kept.
RECURSIVE FirstImageWithoutBreak(_)
FirstImageWithoutBreak(parts) ==
    IF parts = << >> THEN ""
    ELSE IF FirstImageWithoutBreak(Tail(parts)) # ""
         THEN FirstImageWithoutBreak(Tail(parts))
         ELSE IF HasImage(Head(parts)) THEN Head(parts).inlineData.data ELSE ""

\* The loop of lines 112-117: the payload of the first part that has one, else ''.
RECURSIVE FirstImage(_)
FirstImage(parts) ==
    IF parts = << >> THEN ""
    ELSE IF HasImage(Head(parts)) THEN Head(parts).inlineData.data
    ELSE FirstImage(Tail(parts))

NO_IMAGE_MESSAGE ==
    "No image data found in response. The model may have returned text only."
\* What reading .content of response.candidates[0] throws when the list is empty.
TYPE_ERROR_MESSAGE == "Cannot read properties of undefined (reading 'content')"

Ok(value) == [ok |-> TRUE, value |-> value]
Err(message) == [ok |-> FALSE, message |-> message]

\* Faulty variant of ExtractImage: the payload found is returned without the
\* test of line 120.
ExtractImageWithoutTest(response) ==
    IF Truthy(response.candidates) /\ response.candidates.array = << >>
    THEN Err(TYPE_ERROR_MESSAGE)
    ELSE LET scanned ==
                 /\ Truthy(response.candidates)
                 /\ Truthy(response.candidates.array[1].content)
                 /\ Truthy(response.candidates.array[1].content.parts)
             outputImageBase64 ==
                 IF scanned
                 THEN FirstImage(response.candidates.array[1].content.parts.array)
                 ELSE ""
         IN  Ok([mime |-> Mime("image", "png"), data |-> outputImageBase64])

\* Lines 109-124 on a response: the returned data URL, or the Error thrown in
\* the try block.
ExtractImage(response) ==
    IF Truthy(response.candidates) /\ response.candidates.array = << >>
    THEN Err(TYPE_ERROR_MESSAGE)
    ELSE LET scanned ==
                 /\ Truthy(response.candidates)
                 /\ Truthy(response.candidates.array[1].content)
                 /\ Truthy(response.candidates.array[1].content.parts)
             outputImageBase64 ==
                 IF scanned
                 THEN FirstImage(response.candidates.array[1].content.parts.array)
                 ELSE ""
         IN  IF outputImageBase64 = ""
             THEN Err(NO_IMAGE_MESSAGE)
             ELSE Ok([mime |-> Mime("image", "png"), data |-> outputImageBase64])

\* What generateContent does: [throws |-> message] or [response |-> response].
Throws(message) == [throws |-> message]
Returns(response) == [response |-> response]

\* The try/catch of lines 97-129: performImageEdit's result for an outcome of
\* generateContent.  The catch rethrows with error.message || "Failed to process image".
AfterGenerate(outcome) ==
    LET inner == IF "throws" \in DOMAIN outcome
                 THEN Err(outcome.throws)
                 ELSE ExtractImage(outcome.response)
    IN  IF inner.ok THEN inner
        ELSE Err(IF inner.message # "" THEN inner.message ELSE "Failed to process image")

\* Messages of the errors the transport and the host's key selection reject with.
TransportErrors == { "Network error" }

\* Outcomes of generateContent drawn in the model: an image, text only, a throw.
GenerateOutcomes ==
    { Returns(Response(<< ImagePart("r1") >>)),
      Returns(Response(<< TextPart("sorry") >>)) }
    \cup { Throws(message) : message \in TransportErrors }

-----------------------------------------------------------------------------
(* State *)

Init ==
    /\ images = << >>
    /\ activeImageId = NULL_S
    /\ processing = [isProcessing |-> FALSE, error |-> NULL_S, mode |-> NULL_S]
    /\ selectedBgColor = "#ffffff"
    /\ customBgImage = NULL
    /\ cropConfig = [aspectRatio |-> NULL, active |-> FALSE]
    /\ pendingReads = << >>
    /\ calls = << >>
    /\ renders = << >>
    /\ canvas = [width |-> 300, height |-> 150, filter |-> << >>, drawn |-> NULL]
    /\ lastOp = [op |-> "init", id |-> NULL_S, done |-> TRUE, tail |-> 0]

\* What lastOp records: the handler that ran, whether it did more than return,
\* the session it ran on (NULL when on none) and the number of entries that
\* session held past its cursor when the handler ran.
Did(op, img, done) ==
    [ op   |-> op,
      id   |-> IF img = NULL THEN NULL_S ELSE img.id,
      done |-> done,
      tail |-> IF img = NULL THEN 0 ELSE Len(img.history) - 1 - img.historyIndex ]

RECURSIVE EntriesOf(_)
EntriesOf(imgs) ==
    IF imgs = << >> THEN 0 ELSE Len(Head(imgs).history) + EntriesOf(Tail(imgs))

\* Room for one more history entry within the model's bound.
RoomForEntry == EntriesOf(images) + Len(calls) < MaxEntries

RemoveAt(seq, k) == SubSeq(seq, 1, k - 1) \o SubSeq(seq, k + 1, Len(seq))

\* Array.from(files) for the selections of the file dialog: one or two files.
FileSelections == UNION { [1..n -> Files] : n \in 1..2 }

\* Faulty variant of ImageFilesOf: no file is skipped.
AllFilesOf(files) == files

RECURSIVE ImageFilesOf(_)
ImageFilesOf(files) ==
    IF files = << >> THEN << >>
    ELSE IF IsImageType(Head(files).type)
         THEN << Head(files) >> \o ImageFilesOf(Tail(files))
         ELSE ImageFilesOf(Tail(files))

-----------------------------------------------------------------------------
(* Handlers.  Each action is one event of the UI event loop: the handler runs  *)
(* to its end or to its first await.  A handler runs only in states where the  *)
(* control it is bound to is rendered and enabled, except that a condition the *)
(* handler tests again itself is left to the handler's own early return.       *)

\* handleFileUpload (lines 239-276).  The <input> is rendered only while there is
\* no active image (lines 700, 742-749).
handleFileUpload(files) ==
    /\ activeImage = NULL
    /\ Len(images) + Len(pendingReads) + Len(ImageFilesOf(files)) <= MaxImages
    /\ pendingReads' = pendingReads \o
            [ k \in 1..Len(ImageFilesOf(files)) |->
                [file |-> ImageFilesOf(files)[k], activeImageId |-> activeImageId] ]
    /\ lastOp' = Did("handleFileUpload", NULL, ImageFilesOf(files) # << >>)
    /\ UNCHANGED <<images, activeImageId, processing, selectedBgColor,
                   customBgImage, cropConfig, calls, exportState>>

\* reader.onload of one file (lines 246-270); loads complete in any order.
readerOnload(k) ==
    /\ k \in DOMAIN pendingReads
    /\ LET read    == pendingReads[k]
           created == newImg(IdNames[Len(images) + 1], read.file)
           updated == Append(images, created)
       IN  /\ images' = updated
           /\ activeImageId' =
                 IF read.activeImageId = NULL_S THEN updated[1].id ELSE activeImageId
           /\ lastOp' = Did("onload", created, TRUE)
    /\ pendingReads' = RemoveAt(pendingReads, k)
    /\ UNCHANGED <<processing, selectedBgColor, customBgImage, cropConfig, calls,
                   exportState>>

\* The filmstrip's onClick (lines 763-767).
setActiveImageId(id) ==
    /\ id \in { images[i].id : i \in DOMAIN images }
    /\ activeImageId' = id
    /\ lastOp' = Did("setActiveImageId", NULL, TRUE)
    /\ UNCHANGED <<images, processing, selectedBgColor, customBgImage,
                   cropConfig, pendingReads, calls, exportState>>

\* setFilter (lines 343-346).
setFilter(filter) ==
    /\ RoomForEntry
    /\ IF activeImage = NULL
       THEN /\ lastOp' = Did("setFilter", NULL, FALSE)
            /\ UNCHANGED images
       ELSE /\ images' = pushHistory([filter |-> filter], activeImage.id)
            /\ lastOp' = Did("setFilter", activeImage, TRUE)
    /\ UNCHANGED <<activeImageId, processing, selectedBgColor, customBgImage,
                   cropConfig, pendingReads, calls, exportState>>

\* updateAdjustment (lines 329-338).
updateAdjustment(key, value) ==
    /\ IF activeImage = NULL
       THEN /\ lastOp' = Did("updateAdjustment", NULL, FALSE)
            /\ UNCHANGED images
       ELSE /\ images' = [ i \in DOMAIN images |->
                            IF images[i].id = activeImage.id
                            THEN updateAdjustmentImg(images[i], key, value)
                            ELSE images[i] ]
            /\ lastOp' = Did("updateAdjustment", activeImage, TRUE)
    /\ UNCHANGED <<activeImageId, processing, selectedBgColor, customBgImage,
                   cropConfig, pendingReads, calls, exportState>>

\* undo (lines 300-311).  Its button is disabled while processing (line 513).
undo ==
    /\ ~processing.isProcessing
    /\ IF activeImage = NULL
       THEN /\ lastOp' = Did("undo", NULL, FALSE)
            /\ UNCHANGED images
       ELSE /\ images' = [ i \in DOMAIN images |->
                            IF images[i].id = activeImage.id
                            THEN undoImg(images[i]) ELSE images[i] ]
            /\ lastOp' = Did("undo", activeImage, activeImage.historyIndex > 0)
    /\ UNCHANGED <<activeImageId, processing, selectedBgColor, customBgImage,
                   cropConfig, pendingReads, calls, exportState>>

\* redo (lines 313-324).  Its button is disabled while processing (line 514).
redo ==
    /\ ~processing.isProcessing
    /\ IF activeImage = NULL
       THEN /\ lastOp' = Did("redo", NULL, FALSE)
            /\ UNCHANGED images
       ELSE /\ images' = [ i \in DOMAIN images |->
                            IF images[i].id = activeImage.id
                            THEN redoImg(images[i]) ELSE images[i] ]
            /\ lastOp' = Did("redo", activeImage,
                             activeImage.historyIndex < Len(activeImage.history) - 1)
    /\ UNCHANGED <<activeImageId, processing, selectedBgColor, customBgImage,
                   cropConfig, pendingReads, calls, exportState>>

\* Faulty variant of handleAIEditReturnsEarly: the processing flag is not tested.
handleAIEditIgnoresFlag == activeImage = NULL

\* The guard of handleAIEdit (line 350).
handleAIEditReturnsEarly == activeImage = NULL \/ processing.isProcessing

\* performImageEdit up to its first await (lines 14-98): the host's key selection
\* when window.aistudio exists and the mode asks for it (lines 23-30), else
\* generateContent (line 98).  requests lists the arguments of the calls of
\* generateContent the invocation has made.
performImageEdit(imageBase64, mimeType, mode, options, aistudio) ==
    [ imageBase64 |-> imageBase64,
      mimeType    |-> mimeType,
      mode        |-> mode,
      options     |-> options,
      pc          |-> IF NeedsKeySelection(mode) /\ aistudio THEN "key" ELSE "generate",
      requests    |-> IF NeedsKeySelection(mode) /\ aistudio
                      THEN << >>
                      ELSE << Request(imageBase64, mimeType, mode, options) >> ]

\* handleAIEdit up to its await (lines 349-368): the guard, setProcessing, and
\* the call of performImageEdit, which runs to its own first await.  The closure
\* keeps the activeImage, selectedBgColor and customBgImage of this render.
handleAIEdit(mode, aistudio) ==
    IF handleAIEditReturnsEarly
    THEN /\ lastOp' = Did("handleAIEdit", activeImage, FALSE)
         /\ UNCHANGED <<images, activeImageId, processing, selectedBgColor,
                        customBgImage, cropConfig, pendingReads, calls,
                        exportState>>
    ELSE /\ RoomForEntry
         /\ processing' = [isProcessing |-> TRUE, error |-> NULL_S, mode |-> mode]
         /\ calls' = Append(calls,
               [imageId |-> activeImage.id] @@
               performImageEdit(activeImage.current, activeImage.mimeType, mode,
                                [ backgroundColor |-> selectedBgColor,
                                  backgroundImage |-> customBgImage ],
                                aistudio))
         /\ lastOp' = Did("handleAIEdit", activeImage, TRUE)
         /\ UNCHANGED <<images, activeImageId, selectedBgColor, customBgImage,
                        cropConfig, pendingReads, exportState>>

\* The session a suspended handleAIEdit will commit to: the one that has the
\* identifier its closure holds.
Target(call) ==
    images[CHOOSE i \in DOMAIN images : images[i].id = call.imageId]

\* hasSelectedApiKey / openSelectKey resolve (lines 25-28): performImageEdit goes
\* on to generateContent (lines 33-98).
keySelected(k) ==
    /\ k \in DOMAIN calls
    /\ calls[k].pc = "key"
    /\ calls' = [calls EXCEPT
                   ![k].pc = "generate",
                   ![k].requests = Append(@, Request(calls[k].imageBase64, calls[k].mimeType,
                                                     calls[k].mode, calls[k].options))]
    /\ lastOp' = Did("keySelected", NULL, TRUE)
    /\ UNCHANGED <<images, activeImageId, processing, selectedBgColor,
                   customBgImage, cropConfig, pendingReads, exportState>>

\* Faulty variant of FailedState: a failure with an empty message shows no
\* error.
FailedStateWithoutFallback(message) ==
    [ isProcessing |-> FALSE,
      error        |-> IF message # "" THEN message ELSE NULL_S,
      mode         |-> NULL_S ]

\* Faulty variant of FailedState: the processing flag is left set.
FailedStateStillProcessing(message) ==
    [ isProcessing |-> TRUE,
      error        |-> IF message # "" THEN message ELSE "Processing failed.",
      mode         |-> NULL_S ]

\* The catch of handleAIEdit (lines 373-379).
FailedState(message) ==
    [ isProcessing |-> FALSE,
      error        |-> IF message # "" THEN message ELSE "Processing failed.",
      mode         |-> NULL_S ]

\* hasSelectedApiKey / openSelectKey reject: the rejection leaves performImageEdit
\* as it is (it is outside the try of line 97) and reaches handleAIEdit's catch.
keySelectionFails(k, message) ==
    /\ k \in DOMAIN calls
    /\ calls[k].pc = "key"
    /\ calls' = RemoveAt(calls, k)
    /\ processing' = FailedState(message)
    /\ lastOp' = Did("aiFailure", Target(calls[k]), TRUE)
    /\ UNCHANGED <<images, activeImageId, selectedBgColor, customBgImage,
                   cropConfig, pendingReads, exportState>>

\* Faulty variant of generateSettles: the custom background is reset only after
\* REPLACE_BG.
generateSettlesKeepsBackground(k, outcome) ==
    /\ k \in DOMAIN calls
    /\ calls[k].pc = "generate"
    /\ calls' = RemoveAt(calls, k)
    /\ LET result == AfterGenerate(outcome)
       IN  IF result.ok
           THEN /\ images' = pushHistory([current |-> result.value], calls[k].imageId)
                /\ processing' = [isProcessing |-> FALSE, error |-> NULL_S, mode |-> NULL_S]
                /\ customBgImage' = IF calls[k].mode = EditMode.REPLACE_BG
                                    THEN NULL ELSE customBgImage
                /\ lastOp' = Did("aiSuccess", Target(calls[k]), TRUE)
           ELSE /\ processing' = FailedState(result.message)
                /\ lastOp' = Did("aiFailure", Target(calls[k]), TRUE)
                /\ UNCHANGED <<images, customBgImage>>
    /\ UNCHANGED <<activeImageId, selectedBgColor, cropConfig, pendingReads,
                   exportState>>

\* Faulty variant of generateSettles: the result is committed to the session
\* that is active when the call settles.
generateSettlesOnActive(k, outcome) ==
    /\ k \in DOMAIN calls
    /\ calls[k].pc = "generate"
    /\ calls' = RemoveAt(calls, k)
    /\ LET result == AfterGenerate(outcome)
       IN  IF result.ok
           THEN /\ images' = pushHistory([current |-> result.value], activeImageId)
                /\ processing' = [isProcessing |-> FALSE, error |-> NULL_S, mode |-> NULL_S]
                /\ customBgImage' = NULL
                /\ lastOp' = Did("aiSuccess", Target(calls[k]), TRUE)
           ELSE /\ processing' = FailedState(result.message)
                /\ lastOp' = Did("aiFailure", Target(calls[k]), TRUE)
                /\ UNCHANGED <<images, customBgImage>>
    /\ UNCHANGED <<activeImageId, selectedBgColor, cropConfig, pendingReads,
                   exportState>>

\* generateContent settles: the rest of performImageEdit (lines 108-129) and the
\* rest of handleAIEdit (lines 370-379) run in the same task.
generateSettles(k, outcome) ==
    /\ k \in DOMAIN calls
    /\ calls[k].pc = "generate"
    /\ calls' = RemoveAt(calls, k)
    /\ LET result == AfterGenerate(outcome)
       IN  IF result.ok
           THEN /\ images' = pushHistory([current |-> result.value], calls[k].imageId)
                /\ processing' = [isProcessing |-> FALSE, error |-> NULL_S, mode |-> NULL_S]
                /\ customBgImage' = NULL
                /\ lastOp' = Did("aiSuccess", Target(calls[k]), TRUE)
           ELSE /\ processing' = FailedState(result.message)
                /\ lastOp' = Did("aiFailure", Target(calls[k]), TRUE)
                /\ UNCHANGED <<images, customBgImage>>
    /\ UNCHANGED <<activeImageId, selectedBgColor, cropConfig, pendingReads,
                   exportState>>

\* handleBgUpload with its reader.onload (lines 383-392).  The input is in the
\* tools panel, rendered only with an active image (line 561).
handleBgUpload(file) ==
    /\ activeImage # NULL
    /\ customBgImage' = readAsDataURL(file)
    /\ lastOp' = Did("handleBgUpload", NULL, TRUE)
    /\ UNCHANGED <<images, activeImageId, processing, selectedBgColor, cropConfig,
                   pendingReads, calls, exportState>>

\* A background swatch's onClick (line 613).
selectBgColor(value) ==
    /\ activeImage # NULL
    /\ selectedBgColor' = value
    /\ customBgImage' = NULL
    /\ lastOp' = Did("selectBgColor", NULL, TRUE)
    /\ UNCHANGED <<images, activeImageId, processing, cropConfig, pendingReads, calls,
                   exportState>>

\* An aspect-ratio button's onClick (line 671).
setCropConfig(value) ==
    /\ activeImage # NULL
    /\ cropConfig' = [cropConfig EXCEPT !.aspectRatio = value]
    /\ lastOp' = Did("setCropConfig", NULL, TRUE)
    /\ UNCHANGED <<images, activeImageId, processing, selectedBgColor,
                   customBgImage, pendingReads, calls, exportState>>

-----------------------------------------------------------------------------
(* Export: generateFinalImage, handleDownload, handleShare (lines 396-484) *)

\* Exports under way at one time.
MaxRenders == 1
\* Width and height of the small decoded images, in pixels.
MaxSide == 1

\* The numbers of the crop computation are exact fractions [num, den] in lowest
\* terms with den > 0; the crop of lines 412-425 divides and multiplies by
\* ratios such as 16/9.
RECURSIVE GCD(_, _)
GCD(a, b) == IF b = 0 THEN a ELSE GCD(b, a % b)

Abs(n) == IF n < 0 THEN 0 - n ELSE n

Frac(num, den) ==
    LET g == GCD(Abs(num), den)
    IN  [num |-> num \div g, den |-> den \div g]

FracOfInt(n) == [num |-> n, den |-> 1]
FracDiv(a, b) == Frac(a.num * b.den, a.den * b.num)
FracMul(a, b) == Frac(a.num * b.num, a.den * b.den)
FracSub(a, b) == Frac(a.num * b.den - b.num * a.den, a.den * b.den)
FracHalf(a) == Frac(a.num, 2 * a.den)
FracGreater(a, b) == a.num * b.den > b.num * a.den

\* The values of ASPECT_RATIOS (lines 152-158): Free, 1, 9/16, 16/9 and 4/3.
ASPECT_RATIOS ==
    { NULL, Frac(1, 1), Frac(9, 16), Frac(16, 9), Frac(4, 3) }

\* img.width and img.height of a decoded image: the example size of the
\* specification, and every size up to MaxSide x MaxSide.
SourceSizes ==
    { [width |-> 800, height |-> 600] }
    \cup { [width |-> w, height |-> h] : w, h \in 1..MaxSide }

\* Faulty variant of CenterCrop: the crop starts at the top left corner.
CenterCropFromCorner(width, height, aspectRatio) ==
    LET targetRatio == aspectRatio
        imgRatio    == FracDiv(FracOfInt(width), FracOfInt(height))
    IN  IF aspectRatio = NULL
        THEN [sx |-> FracOfInt(0), sy |-> FracOfInt(0),
              sWidth |-> FracOfInt(width), sHeight |-> FracOfInt(height)]
        ELSE IF FracGreater(targetRatio, imgRatio)
        THEN [sx |-> FracOfInt(0), sy |-> FracOfInt(0),
              sWidth |-> FracOfInt(width),
              sHeight |-> FracDiv(FracOfInt(width), targetRatio)]
        ELSE [sx |-> FracOfInt(0), sy |-> FracOfInt(0),
              sWidth |-> FracMul(FracOfInt(height), targetRatio),
              sHeight |-> FracOfInt(height)]

\* The centre crop of img.onload (lines 406-425): a null ratio leaves the whole
\* image.
CenterCrop(width, height, aspectRatio) ==
    LET targetRatio == aspectRatio
        imgRatio    == FracDiv(FracOfInt(width), FracOfInt(height))
    IN  IF aspectRatio = NULL
        THEN [sx |-> FracOfInt(0), sy |-> FracOfInt(0),
              sWidth |-> FracOfInt(width), sHeight |-> FracOfInt(height)]
        ELSE IF FracGreater(targetRatio, imgRatio)
        THEN LET sHeight == FracDiv(FracOfInt(width), targetRatio)
             IN  [sx |-> FracOfInt(0),
                  sy |-> FracHalf(FracSub(FracOfInt(height), sHeight)),
                  sWidth |-> FracOfInt(width), sHeight |-> sHeight]
        ELSE LET sWidth == FracMul(FracOfInt(height), targetRatio)
             IN  [sx |-> FracHalf(FracSub(FracOfInt(width), sWidth)),
                  sy |-> FracOfInt(0),
                  sWidth |-> sWidth, sHeight |-> FracOfInt(height)]

\* canvas.width = sWidth: the number is converted to an unsigned long (the
\* fraction is dropped).
ToUnsignedLong(a) == a.num \div a.den

\* A CSS filter string is the sequence of its tokens: filter functions such as
\* brightness(150%) and single spaces.
FilterFn(fn, amount, unit) == [fn |-> fn, amount |-> amount, unit |-> unit]
Space == [space |-> TRUE]

\* 'sepia(50%) contrast(120%) brightness(90%)' (lines 442, 491).
VintagePreset ==
    << FilterFn("sepia", 50, "%"), Space, FilterFn("contrast", 120, "%"), Space,
       FilterFn("brightness", 90, "%") >>

\* Array.prototype.join(' ') over strings.
RECURSIVE JoinWithSpace(_)
JoinWithSpace(strings) ==
    IF strings = << >> THEN << >>
    ELSE IF Len(strings) = 1 THEN Head(strings)
    ELSE Head(strings) \o << Space >> \o JoinWithSpace(Tail(strings))

\* Faulty variant of ExportFilters: the preset is put before the adjustments.
ExportFiltersPresetFirst(img) ==
    JoinWithSpace(
        (IF img.filter = FilterType.GRAYSCALE
         THEN << << FilterFn("grayscale", 100, "%") >> >> ELSE << >>)
     \o (IF img.filter = FilterType.SEPIA
         THEN << << FilterFn("sepia", 100, "%") >> >> ELSE << >>)
     \o (IF img.filter = FilterType.VINTAGE THEN << VintagePreset >> ELSE << >>)
     \o << << FilterFn("brightness", img.adjustments.brightness, "%") >>,
           << FilterFn("contrast",   img.adjustments.contrast,   "%") >>,
           << FilterFn("saturate",   img.adjustments.saturation, "%") >>,
           << FilterFn("blur",       img.adjustments.blur,       "px") >> >>)

\* The string assigned to ctx.filter (lines 431-444): the filters array joined.
ExportFilters(img) ==
    JoinWithSpace(
        << << FilterFn("brightness", img.adjustments.brightness, "%") >>,
           << FilterFn("contrast",   img.adjustments.contrast,   "%") >>,
           << FilterFn("saturate",   img.adjustments.saturation, "%") >>,
           << FilterFn("blur",       img.adjustments.blur,       "px") >> >>
     \o (IF img.filter = FilterType.GRAYSCALE
         THEN << << FilterFn("grayscale", 100, "%") >> >> ELSE << >>)
     \o (IF img.filter = FilterType.SEPIA
         THEN << << FilterFn("sepia", 100, "%") >> >> ELSE << >>)
     \o (IF img.filter = FilterType.VINTAGE THEN << VintagePreset >> ELSE << >>))

\* getCssFilterString (lines 487-493), the filter of the preview (line 727).
getCssFilterString(adj, type) ==
    << FilterFn("brightness", adj.brightness, "%"), Space,
       FilterFn("contrast",   adj.contrast,   "%"), Space,
       FilterFn("saturate",   adj.saturation, "%"), Space,
       FilterFn("blur",       adj.blur,       "px"), Space >>
    \o (IF type = FilterType.GRAYSCALE THEN << FilterFn("grayscale", 100, "%") >>
        ELSE << >>)
    \o (IF type = FilterType.SEPIA THEN << FilterFn("sepia", 100, "%") >> ELSE << >>)
    \o (IF type = FilterType.VINTAGE THEN VintagePreset ELSE << >>)

\* The filter functions a CSS filter string stands for: the functions in their
\* order, white space between and after them dropped.
FilterFunctions(string) == SelectSeq(string, LAMBDA token : token # Space)

\* generateFinalImage up to img.src = activeImage.current (lines 396-403, 451),
\* called by handleDownload (line 456) or handleShare (line 468).  The buttons
\* are rendered only with an active image (lines 511-518); img.onload sees the
\* activeImage and the cropConfig of this render, of which it reads current,
\* adjustments, filter, mimeType and aspectRatio.
generateFinalImage(caller) ==
    /\ activeImage # NULL
    /\ Len(renders) < MaxRenders
    /\ renders' = Append(renders,
          [ activeImage |-> [ current     |-> activeImage.current,
                              adjustments |-> activeImage.adjustments,
                              filter      |-> activeImage.filter,
                              mimeType    |-> activeImage.mimeType ],
            cropConfig  |-> [aspectRatio |-> cropConfig.aspectRatio] ])
    /\ lastOp' = Did(caller, NULL, TRUE)
    /\ UNCHANGED <<images, activeImageId, processing, selectedBgColor,
                   customBgImage, cropConfig, pendingReads, calls, canvas>>

handleDownload == generateFinalImage("handleDownload")

handleShare == generateFinalImage("handleShare")

\* img.onload (lines 404-450) for an image decoded to width x height.  The URL
\* it resolves with goes to a link that handleDownload clicks (lines 457-464) or
\* to navigator.share (lines 469-482); neither is kept by the program.
imgOnload(k, width, height) ==
    /\ k \in DOMAIN renders
    /\ LET render == renders[k]
           crop   == CenterCrop(width, height, render.cropConfig.aspectRatio)
       IN  canvas' =
             [ width  |-> ToUnsignedLong(crop.sWidth),
               height |-> ToUnsignedLong(crop.sHeight),
               filter |-> ExportFilters(render.activeImage),
               drawn  |-> [ image   |-> [src |-> render.activeImage.current,
                                         width |-> width, height |-> height],
                            sx      |-> crop.sx,
                            sy      |-> crop.sy,
                            sWidth  |-> crop.sWidth,
                            sHeight |-> crop.sHeight,
                            dx      |-> 0,
                            dy      |-> 0,
                            dWidth  |-> ToUnsignedLong(crop.sWidth),
                            dHeight |-> ToUnsignedLong(crop.sHeight) ] ]
    /\ renders' = RemoveAt(renders, k)
    /\ lastOp' = Did("imgOnload", NULL, TRUE)
    /\ UNCHANGED <<images, activeImageId, processing, selectedBgColor,
                   customBgImage, cropConfig, pendingReads, calls>>

-----------------------------------------------------------------------------
(* performImageEdit called on its own, with any arguments. *)

\* Parts a response holds; a response holds at most MaxParts of them.
MaxParts == 3

\* Arguments of performImageEdit.
AdapterImages == { readAsDataURL(file) : file \in { f \in Files : IsImageType(f.type) } }
AdapterMimeTypes == { Mime("image", "png"), Mime("image", "jpeg") }
AdapterModes == { EditMode[n] : n \in DOMAIN EditMode }
AdapterColors == { NULL_S, "", "#ffffff", "linear-gradient(to top, #fca5a5, #fcd34d)" }
AdapterBackgrounds == { NULL } \cup { readAsDataURL(file) : file \in BgFiles }

\* Responses of generateContent: no candidates field, no candidate, a candidate
\* with no content, a content with no parts, every list of up to MaxParts parts
\* that are a text, an image or an inlineData with an empty payload, and two
\* candidates of one part each.
ResponseParts == { TextPart("sorry"), ImagePart("r1"), ImagePart("r2"), ImagePart("") }
Responses ==
    { [candidates |-> NULL],
      [candidates |-> Array(<< >>)],
      [candidates |-> Array(<< [content |-> NULL] >>)],
      [candidates |-> Array(<< [content |-> [parts |-> NULL]] >>)] }
    \cup { Response(parts) : parts \in UNION { [1..n -> ResponseParts] : n \in 0..MaxParts } }
    \cup { [candidates |-> Array(<< [content |-> [parts |-> Array(<< first >>)]],
                                    [content |-> [parts |-> Array(<< ImagePart("r2") >>)]] >>)] :
              first \in {TextPart("sorry"), ImagePart("r1")} }

\* Messages of the errors generateContent and the key selection reject with:
\* an error may carry an empty message.
AdapterErrors == { "Network error", "" }
AdapterOutcomes ==
    { Returns(response) : response \in Responses }
    \cup { Throws(message) : message \in AdapterErrors }

\* An invocation that has settled: what generateContent did (NULL when it was
\* not reached) and what performImageEdit returned or threw.
Settled(call, outcome, result) ==
    [ imageBase64 |-> call.imageBase64,
      mimeType    |-> call.mimeType,
      mode        |-> call.mode,
      options     |-> call.options,
      pc          |-> "settled",
      requests    |-> call.requests,
      outcome     |-> outcome,
      result      |-> result ]

\* A caller calls performImageEdit (lines 14-19); a run holds one invocation.
invoke(imageBase64, mimeType, mode, options, aistudio) ==
    /\ calls = << >>
    /\ calls' = << performImageEdit(imageBase64, mimeType, mode, options, aistudio) >>
    /\ lastOp' = Did("invoke", NULL, TRUE)
    /\ UNCHANGED <<images, activeImageId, processing, selectedBgColor,
                   customBgImage, cropConfig, pendingReads, exportState>>

\* hasSelectedApiKey / openSelectKey reject (lines 25-28): outside the try of
\* line 97, the rejection is performImageEdit's own.
keySelectionRejects(k, message) ==
    /\ k \in DOMAIN calls
    /\ calls[k].pc = "key"
    /\ calls' = [calls EXCEPT ![k] = Settled(@, NULL, Err(message))]
    /\ lastOp' = Did("keySelectionRejects", NULL, TRUE)
    /\ UNCHANGED <<images, activeImageId, processing, selectedBgColor,
                   customBgImage, cropConfig, pendingReads, exportState>>

\* Faulty variant of generateContentSettles: a call that throws is made once
\* more.
generateContentSettlesRetries(k, outcome) ==
    /\ k \in DOMAIN calls
    /\ calls[k].pc = "generate"
    /\ calls' = IF "throws" \in DOMAIN outcome /\ Len(calls[k].requests) = 1
                THEN [calls EXCEPT ![k].requests = Append(@, @[1])]
                ELSE [calls EXCEPT ![k] = Settled(@, outcome, AfterGenerate(outcome))]
    /\ lastOp' = Did("generateContentSettles", NULL, TRUE)
    /\ UNCHANGED <<images, activeImageId, processing, selectedBgColor,
                   customBgImage, cropConfig, pendingReads, exportState>>

\* generateContent settles and performImageEdit runs to its end (lines 98-129).
generateContentSettles(k, outcome) ==
    /\ k \in DOMAIN calls
    /\ calls[k].pc = "generate"
    /\ calls' = [calls EXCEPT ![k] = Settled(@, outcome, AfterGenerate(outcome))]
    /\ lastOp' = Did("generateContentSettles", NULL, TRUE)
    /\ UNCHANGED <<images, activeImageId, processing, selectedBgColor,
                   customBgImage, cropConfig, pendingReads, exportState>>

NextAdapter ==
    \/ \E imageBase64 \in AdapterImages, mimeType \in AdapterMimeTypes,
          mode \in AdapterModes, backgroundColor \in AdapterColors,
          backgroundImage \in AdapterBackgrounds, aistudio \in BOOLEAN :
            invoke(imageBase64, mimeType, mode,
                   [backgroundColor |-> backgroundColor, backgroundImage |-> backgroundImage],
                   aistudio)
    \/ \E k \in DOMAIN calls : keySelected(k)
    \/ \E k \in DOMAIN calls, message \in AdapterErrors : keySelectionRejects(k, message)
    \/ \E k \in DOMAIN calls, outcome \in AdapterOutcomes : generateContentSettles(k, outcome)

SpecAdapter == Init /\ [][NextAdapter]_vars

-----------------------------------------------------------------------------
\* The session store and the AI call: every handler that reads or writes images,
\* activeImageId, processing or the calls in flight.
Next ==
    \/ \E files \in FileSelections : handleFileUpload(files)
    \/ \E k \in DOMAIN pendingReads : readerOnload(k)
    \/ \E id \in ImageIds : setActiveImageId(id)
    \/ \E filter \in FilterInputs : setFilter(filter)
    \/ \E in \in AdjustInputs : updateAdjustment(in[1], in[2])
    \/ undo
    \/ redo
    \/ \E mode \in ModeInputs, aistudio \in BOOLEAN : handleAIEdit(mode, aistudio)
    \/ \E k \in DOMAIN calls : keySelected(k)
    \/ \E k \in DOMAIN calls, message \in TransportErrors : keySelectionFails(k, message)
    \/ \E k \in DOMAIN calls, outcome \in GenerateOutcomes : generateSettles(k, outcome)

Spec == Init /\ [][Next]_vars

-----------------------------------------------------------------------------
(* The AI call on the image that is active first, with every button of the   *)
(* Magic tab, the background inputs and errors that carry no message;        *)
(* generateContent settles in the end.                                       *)

\* The modes the AI buttons pass to handleAIEdit (lines 570-625).
ButtonModes ==
    { EditMode.ENHANCE, EditMode.PIXEL_ART, EditMode.ANIME,
      EditMode.REMOVE_BG, EditMode.REPLACE_BG }

\* Outcomes of generateContent: those of GenerateOutcomes and a throw with an
\* empty message.
SettleOutcomes == GenerateOutcomes \cup { Throws(message) : message \in AdapterErrors }

generateContentReturns ==
    \E k \in DOMAIN calls, outcome \in SettleOutcomes : generateSettles(k, outcome)

NextAI ==
    \/ \E files \in FileSelections : handleFileUpload(files)
    \/ \E k \in DOMAIN pendingReads : readerOnload(k)
    \/ \E in \in AdjustInputs : updateAdjustment(in[1], in[2])
    \/ \E file \in BgFiles : handleBgUpload(file)
    \/ \E value \in ColorInputs : selectBgColor(value)
    \/ \E mode \in ButtonModes, aistudio \in BOOLEAN : handleAIEdit(mode, aistudio)
    \/ \E k \in DOMAIN calls : keySelected(k)
    \/ \E k \in DOMAIN calls, message \in AdapterErrors : keySelectionFails(k, message)
    \/ generateContentReturns

\* The transport settles every call of generateContent; nothing makes the host
\* settle its key selection.
SpecAI == Init /\ [][NextAI]_vars /\ WF_vars(generateContentReturns)

-----------------------------------------------------------------------------
(* Cropping and export: every aspect ratio, and the download and share       *)
(* buttons.                                                                  *)

NextExport ==
    \/ \E files \in FileSelections : handleFileUpload(files)
    \/ \E k \in DOMAIN pendingReads : readerOnload(k)
    \/ \E value \in ASPECT_RATIOS : setCropConfig(value)
    \/ handleDownload
    \/ handleShare
    \/ \E k \in DOMAIN renders, size \in SourceSizes :
          imgOnload(k, size.width, size.height)

SpecExport == Init /\ [][NextExport]_vars

-----------------------------------------------------------------------------
(* Export of an edited image: one session, with any filter and any of some    *)
(* slider positions, is exported.                                            *)

\* Slider positions (lines 641-644): brightness, contrast and saturation within
\* 0..200, blur within 0..10.
AdjustmentValues ==
    [ brightness : {0, 100, 150}, contrast : {100, 120}, saturation : {80, 200},
      blur : {0, 10} ]

\* The values of FilterType, one per filter button (line 650).
FilterValues == { FilterType[k] : k \in DOMAIN FilterType }

RECURSIVE SetAdjustments(_, _, _)
\* updateAdjustment for each of the keys, one after the other.
SetAdjustments(img, keys, adj) ==
    IF keys = << >> THEN img
    ELSE SetAdjustments(updateAdjustmentImg(img, Head(keys), adj[Head(keys)]),
                        Tail(keys), adj)

\* The session of a.png after its upload, a click on a filter button and a move
\* of each slider.
EditedImg(filter, adj) ==
    SetAdjustments(
        pushHistoryImg(newImg(IdNames[1], CHOOSE f \in Files : IsImageType(f.type)),
                       [filter |-> filter]),
        << "brightness", "contrast", "saturation", "blur" >>, adj)

InitFilters ==
    /\ \E filter \in FilterValues, adj \in AdjustmentValues :
          images = << EditedImg(filter, adj) >>
    /\ activeImageId = IdNames[1]
    /\ processing = [isProcessing |-> FALSE, error |-> NULL_S, mode |-> NULL_S]
    /\ selectedBgColor = "#ffffff"
    /\ customBgImage = NULL
    /\ cropConfig = [aspectRatio |-> NULL, active |-> FALSE]
    /\ pendingReads = << >>
    /\ calls = << >>
    /\ renders = << >>
    /\ canvas = [width |-> 300, height |-> 150, filter |-> << >>, drawn |-> NULL]
    /\ lastOp = [op |-> "updateAdjustment", id |-> IdNames[1], done |-> TRUE, tail |-> 0]

NextFilters ==
    \/ handleDownload
    \/ handleShare
    \/ \E k \in DOMAIN renders, size \in SourceSizes :
          imgOnload(k, size.width, size.height)

SpecFilters == InitFilters /\ [][NextFilters]_vars

-----------------------------------------------------------------------------
(* The session store with the crop setting: every handler that writes a      *)
(* session, the filmstrip and the aspect-ratio buttons; the AI button is     *)
(* Remove Background, on a host without key selection.                       *)

\* Outcomes of generateContent: an image, and a text that makes the call fail.
SessionOutcomes ==
    { Returns(Response(<< ImagePart("r1") >>)),
      Returns(Response(<< TextPart("sorry") >>)) }

NextSessions ==
    \/ \E files \in FileSelections : handleFileUpload(files)
    \/ \E k \in DOMAIN pendingReads : readerOnload(k)
    \/ \E id \in ImageIds : setActiveImageId(id)
    \/ \E filter \in FilterInputs : setFilter(filter)
    \/ \E in \in AdjustInputs : updateAdjustment(in[1], in[2])
    \/ undo
    \/ redo
    \/ \E value \in RatioInputs : setCropConfig(value)
    \/ handleAIEdit(EditMode.REMOVE_BG, FALSE)
    \/ \E k \in DOMAIN calls, outcome \in SessionOutcomes : generateSettles(k, outcome)

SpecSessions == Init /\ [][NextSessions]_vars

-----------------------------------------------------------------------------
(* Properties of the history store *)

Sessions == DOMAIN images

\* The session with the given identifier, in a list of sessions.
SessionOf(imgs, id) == imgs[CHOOSE i \in DOMAIN imgs : imgs[i].id = id]
HasSession(imgs, id) == \E i \in DOMAIN imgs : imgs[i].id = id

\* The entry under the cursor.
AtCursor(img) == HistAt(img, img.historyIndex)

\* The entries of a history list.
Entries(history) == { history[j] : j \in DOMAIN history }

\* The snapshot a session is seeded with.
SeedOf(img) ==
    [current |-> img.original, adjustments |-> DEFAULT_ADJUSTMENTS, filter |-> FilterType.NONE]

\* The handlers that commit a history entry.
CommitOps == {"setFilter", "aiSuccess"}

\* lastOp tells that the given handler has just acted on the active session.
JustDid(ops, id) == lastOp.op \in ops /\ lastOp.done /\ lastOp.id = id

\* C1: in every reachable state and for every image session,
\* 0 <= historyIndex < history.length.
C1_CursorInRange ==
    \A i \in Sessions :
        /\ 0 <= images[i].historyIndex
        /\ images[i].historyIndex < Len(images[i].history)

\* A second session was uploaded, commits of both kinds were made on one session
\* with its adjustments changed, and an undo has just moved its cursor to 0.
C1_Witness ==
    /\ Len(images) = 2
    /\ \E i \in Sessions :
        /\ JustDid({"undo"}, images[i].id)
        /\ Len(images[i].history) = 3
        /\ images[i].historyIndex = 0
        /\ \E j \in 2..3 : images[i].history[j].filter = FilterType.GRAYSCALE
        /\ \E j \in 2..3 : images[i].history[j].current # images[i].original
        /\ \E j \in 2..3 : images[i].history[j].adjustments # DEFAULT_ADJUSTMENTS

\* C2 as stated: in every reachable state and for every image session,
\* history[historyIndex] equals the visible (current, adjustments, filter) triple.
C2_CursorEntryIsVisible ==
    \A i \in Sessions : AtCursor(images[i]) = Visible(images[i])

AdjustmentsRecorded(img) == AtCursor(img).adjustments = img.adjustments

\* C2 amended: in every reachable state and for every image session,
\* history[historyIndex] has the visible current image and the visible filter;
\* it has the visible adjustments when the session is created and after every
\* commit, undo and redo on it, and keeps them until updateAdjustment changes
\* the session's adjustments.
C2_CursorEntryIsVisibleButAdjustments ==
    /\ [](\A i \in Sessions :
            /\ AtCursor(images[i]).current = images[i].current
            /\ AtCursor(images[i]).filter = images[i].filter)
    /\ [][\A i \in DOMAIN images' :
            LET id == images'[i].id
                adjusted == lastOp'.op = "updateAdjustment" /\ lastOp'.id = id
                settled  == /\ lastOp'.op \in CommitOps \cup {"onload", "undo", "redo"}
                            /\ lastOp'.id = id
                            /\ lastOp'.done
                recorded == /\ HasSession(images, id)
                            /\ AdjustmentsRecorded(SessionOf(images, id))
            IN  (~adjusted /\ (settled \/ recorded)) => AdjustmentsRecorded(images'[i])
       ]_vars

\* The adjustments of a session were changed after its first commit and recorded
\* by its second, and an undo has just put those of the first commit back.
C2_Witness ==
    \E i \in Sessions :
        /\ JustDid({"undo"}, images[i].id)
        /\ Len(images[i].history) = 3
        /\ images[i].historyIndex = 1
        /\ images[i].history[2].adjustments = DEFAULT_ADJUSTMENTS
        /\ images[i].history[3].adjustments # DEFAULT_ADJUSTMENTS
        /\ AtCursor(images[i]) = Visible(images[i])

RECURSIVE undoTimes(_, _)
undoTimes(img, n) == IF n = 0 THEN img ELSE undoTimes(undoImg(img), n - 1)

RECURSIVE redoTimes(_, _)
redoTimes(img, n) == IF n = 0 THEN img ELSE redoTimes(redoImg(img), n - 1)

\* C3: for every session and every N >= 0, after N commits from the seeded
\* session (the cursor is on the last entry, N, which is the visible triple),
\* N undos make the visible triple the seed snapshot and the cursor 0, and N
\* redos after them make the visible triple and the cursor what they were.
C3_UndoAllRedoAll ==
    \A i \in Sessions :
        LET img    == images[i]
            N      == Len(img.history) - 1
            undone == undoTimes(img, N)
            redone == redoTimes(undone, N)
        IN  (img.historyIndex = N /\ AtCursor(img) = Visible(img)) =>
                /\ Visible(undone) = SeedOf(img)
                /\ undone.historyIndex = 0
                /\ Visible(redone) = Visible(img)
                /\ redone.historyIndex = N
                /\ redone = img

\* Two commits were made on a seeded session with its adjustments changed in
\* between, the undos were made, and the last redo has just restored entry 2.
C3_Witness ==
    \E i \in Sessions :
        /\ JustDid({"redo"}, images[i].id)
        /\ Len(images[i].history) = 3
        /\ images[i].historyIndex = 2
        /\ Visible(images[i]) = images[i].history[3]
        /\ images[i].history[3] # images[i].history[2]
        /\ images[i].history[3] # images[i].history[1]
        /\ images[i].history[2] # images[i].history[1]
        /\ images[i].history[3].adjustments # DEFAULT_ADJUSTMENTS

\* C4: a commit made while the cursor is below the last index discards every
\* entry past the cursor: right after it the history is the old history up to
\* the cursor plus one entry, the cursor is the last index, redo does nothing,
\* and no sequence of undos and redos leaves those entries.
C4_CommitDiscardsRedoTail ==
    [][\A i \in Sessions :
         LET img == images[i]
             new == images'[i]
             kept == SubSeq(img.history, 1, img.historyIndex + 1)
         IN  ( /\ lastOp'.op \in CommitOps /\ lastOp'.done /\ lastOp'.id = img.id
               /\ img.historyIndex < Len(img.history) - 1 ) =>
                 /\ Len(new.history) = Len(kept) + 1
                 /\ SubSeq(new.history, 1, Len(kept)) = kept
                 /\ new.historyIndex = Len(new.history) - 1
                 /\ redoImg(new) = new
                 /\ \A n, m \in 0..Len(img.history) :
                       LET moved == redoTimes(undoTimes(new, n), m)
                       IN  /\ moved.history = new.history
                           /\ moved.historyIndex <= Len(kept)
      ]_vars

\* Two commits were made, then two undos, and a commit has just dropped the two
\* redoable entries.
C4_Witness ==
    \E i \in Sessions :
        /\ JustDid(CommitOps, images[i].id)
        /\ lastOp.tail = 2
        /\ Len(images[i].history) = 2
        /\ images[i].historyIndex = 1

\* Partial states handed to pushHistory: every subset of the three fields, with
\* values no handler of the model produces.
SomeFullState ==
    [ current     |-> [mime |-> Mime("image", "png"), data |-> "x"],
      adjustments |-> [brightness |-> 10, contrast |-> 20, saturation |-> 30, blur |-> 4],
      filter      |-> FilterType.VINTAGE ]
PartialStates ==
    { [k \in D |-> SomeFullState[k]] : D \in SUBSET {"current", "adjustments", "filter"} }

\* partialState merged over the visible state of the session.
MergedOver(img, partialState) ==
    [ current     |-> IF "current" \in DOMAIN partialState
                      THEN partialState.current ELSE Visible(img).current,
      adjustments |-> IF "adjustments" \in DOMAIN partialState
                      THEN partialState.adjustments ELSE Visible(img).adjustments,
      filter      |-> IF "filter" \in DOMAIN partialState
                      THEN partialState.filter ELSE Visible(img).filter ]

\* What commit promises of the session before and after it.
Committed(img, partialState, new) ==
    /\ new.history =
          SubSeq(img.history, 1, img.historyIndex + 1) \o << MergedOver(img, partialState) >>
    /\ new.historyIndex = img.historyIndex + 1
    /\ new.historyIndex = Len(new.history) - 1
    /\ Visible(new) = MergedOver(img, partialState)

\* C5: commit(sessionId, partialState) with any subset of {result, adjustments,
\* filter}: the new history is the old history[0..cursor] followed by one entry
\* equal to partialState merged over the visible state at the moment of the
\* commit; the new cursor is the old cursor + 1 and is the last index; the
\* visible triple equals the new entry.  Stated of pushHistory on every reachable
\* session, and of the two handlers that call it.
C5_CommitMergesTruncatesAppends ==
    /\ [](\A i \in Sessions : \A partialState \in PartialStates :
            Committed(images[i], partialState, pushHistoryImg(images[i], partialState)))
    /\ [][\A i \in Sessions :
            (lastOp'.op \in CommitOps /\ lastOp'.done /\ lastOp'.id = images[i].id) =>
                Committed(images[i],
                          IF lastOp'.op = "setFilter"
                          THEN [filter |-> images'[i].filter]
                          ELSE [current |-> images'[i].current],
                          images'[i])
       ]_vars

\* A filter commit has just been made below the last index on a session whose
\* adjustments had been changed and whose current image is an AI result.
C5_Witness ==
    \E i \in Sessions :
        /\ JustDid({"setFilter"}, images[i].id)
        /\ lastOp.tail = 1
        /\ Len(images[i].history) = 3
        /\ images[i].current # images[i].original
        /\ images[i].adjustments # DEFAULT_ADJUSTMENTS
        /\ images[i].history[3] # images[i].history[2]

\* C6: undo on the active session: if the cursor is 0 the whole session state is
\* left unchanged; otherwise the cursor decreases by exactly 1, the visible
\* triple becomes history[new cursor], and the history list is unchanged.
C6_Undo ==
    [][lastOp'.op = "undo" =>
         IF activeImage = NULL THEN images' = images
         ELSE LET img == activeImage
                  new == SessionOf(images', img.id)
              IN  IF img.historyIndex = 0
                  THEN new = img
                  ELSE /\ new.historyIndex = img.historyIndex - 1
                       /\ Visible(new) = HistAt(img, img.historyIndex - 1)
                       /\ Visible(new) = AtCursor(new)
                       /\ new.history = img.history
      ]_vars

\* On a session with two commits and a changed adjustment, an undo has just
\* moved the cursor from 2 to 1.
C6_Witness ==
    \E i \in Sessions :
        /\ JustDid({"undo"}, images[i].id)
        /\ lastOp.tail = 0
        /\ Len(images[i].history) = 3
        /\ images[i].historyIndex = 1
        /\ images[i].history[3] # images[i].history[2]
        /\ images[i].history[2] # images[i].history[1]

\* C7: redo on the active session: if the cursor is the last index the whole
\* session state is left unchanged; otherwise the cursor increases by exactly 1,
\* the visible triple becomes history[new cursor], and the history list is
\* unchanged.
C7_Redo ==
    [][lastOp'.op = "redo" =>
         IF activeImage = NULL THEN images' = images
         ELSE LET img == activeImage
                  new == SessionOf(images', img.id)
              IN  IF img.historyIndex = Len(img.history) - 1
                  THEN new = img
                  ELSE /\ new.historyIndex = img.historyIndex + 1
                       /\ Visible(new) = HistAt(img, img.historyIndex + 1)
                       /\ Visible(new) = AtCursor(new)
                       /\ new.history = img.history
      ]_vars

\* On a session with two commits undone to the seed, a redo has just moved the
\* cursor from 0 to 1.
C7_Witness ==
    \E i \in Sessions :
        /\ JustDid({"redo"}, images[i].id)
        /\ lastOp.tail = 2
        /\ Len(images[i].history) = 3
        /\ images[i].historyIndex = 1
        /\ images[i].history[3] # images[i].history[2]
        /\ images[i].history[2] # images[i].history[1]

\* C8: adjustment changes never create a history entry: updateAdjustment leaves
\* the history and historyIndex of every session unchanged, and changes only
\* the adjustments (one key of them) of the active session.
C8_AdjustmentLeavesHistory ==
    [][lastOp'.op = "updateAdjustment" =>
         /\ DOMAIN images' = DOMAIN images
         /\ \A i \in Sessions :
              /\ images'[i].history = images[i].history
              /\ images'[i].historyIndex = images[i].historyIndex
              /\ images'[i] = [images[i] EXCEPT !.adjustments = images'[i].adjustments]
              /\ images[i].id # activeImageId => images'[i] = images[i]
              /\ \E key \in AdjustmentKeys :
                    \A other \in AdjustmentKeys \ {key} :
                        images'[i].adjustments[other] = images[i].adjustments[other]
      ]_vars

\* With two sessions loaded, an adjustment has just been changed on a session
\* whose cursor is below the last index; the entry under the cursor keeps the
\* old adjustments.
C8_Witness ==
    /\ Len(images) = 2
    /\ \E i \in Sessions :
        /\ JustDid({"updateAdjustment"}, images[i].id)
        /\ lastOp.tail = 1
        /\ Len(images[i].history) = 3
        /\ images[i].historyIndex = 1
        /\ images[i].adjustments # AtCursor(images[i]).adjustments

\* C9: right after an undo or redo that is not a no-op, the visible triple is
\* a snapshot committed to that session before (the seed or an entry appended
\* by a commit), also when adjustments were changed without a commit before.
\* Every step leaves the entries a history keeps as they are and adds at most
\* the entry of a commit, so the entries are the committed snapshots; an undo
\* or redo makes one of them visible.
C9_UndoRedoShowCommittedSnapshot ==
    [][\A i \in DOMAIN images' :
         IF i \notin Sessions
         THEN lastOp'.op = "onload" /\ images'[i].history = << SeedOf(images'[i]) >>
         ELSE
         LET img == images[i]
             new == images'[i]
             commits == lastOp'.op \in CommitOps /\ lastOp'.done /\ lastOp'.id = img.id
             moves   == lastOp'.op \in {"undo", "redo"} /\ lastOp'.done /\ lastOp'.id = img.id
         IN  /\ \A j \in DOMAIN new.history :
                  \/ j \in DOMAIN img.history /\ new.history[j] = img.history[j]
                  \/ commits /\ j = Len(new.history) /\ new.history[j] = Visible(new)
             /\ moves => Visible(new) \in Entries(img.history)
      ]_vars

\* A redo has just made visible again an AI result committed with changed
\* adjustments.
C9_Witness ==
    \E i \in Sessions :
        /\ JustDid({"redo"}, images[i].id)
        /\ images[i].current # images[i].original
        /\ images[i].adjustments # DEFAULT_ADJUSTMENTS
        /\ images[i].historyIndex >= 1
        /\ AtCursor(images[i]).current # HistAt(images[i], images[i].historyIndex - 1).current

\* C10: at most one AI model call is outstanding at any time, whatever the
\* number of images and whichever is active, and the processing flag is set
\* while one is; a handleAIEdit request made while the flag is set starts no
\* call.
C10_SingleFlight ==
    /\ [](Len(calls) <= 1 /\ (calls # << >> => processing.isProcessing))
    /\ [][(lastOp'.op = "handleAIEdit" /\ processing.isProcessing) =>
            (calls' = calls /\ ~lastOp'.done)]_vars

\* With two images loaded and a call outstanding for one, handleAIEdit has just
\* been asked on the other and has returned.
C10_Witness ==
    /\ Len(images) = 2
    /\ Len(calls) = 1
    /\ lastOp.op = "handleAIEdit" /\ ~lastOp.done
    /\ lastOp.id = activeImageId
    /\ calls[1].imageId # activeImageId

-----------------------------------------------------------------------------
(* Properties of the AI call *)

\* The message of the failure itself: what generateContent threw, or what the
\* scan of its response threw.
UnderlyingMessage(outcome) ==
    IF "throws" \in DOMAIN outcome
    THEN outcome.throws
    ELSE ExtractImage(outcome.response).message

\* A step that ends an invocation without a commit and shows the given message.
FailsWith(message) ==
    /\ images' = images
    /\ processing' = [isProcessing |-> FALSE, error |-> message, mode |-> NULL_S]

TextOf(request) ==
    LET n == CHOOSE j \in DOMAIN request.parts : "text" \in DOMAIN request.parts[j]
    IN  request.parts[n].text

\* C12: on a successful AI invocation the session's history gains exactly one
\* new entry: the new history is the entries kept (those up to the cursor)
\* followed by one entry whose result image is the returned image and whose
\* adjustments and filter are those of the session's visible state just before
\* the commit; no other session changes.  The request of a RemoveBackground
\* invocation asks for a "pure solid white background".
C12_SuccessCommitsOneEntry ==
    /\ [](\A k \in DOMAIN calls :
            (calls[k].mode = EditMode.REMOVE_BG /\ calls[k].pc = "generate") =>
                \E j \in DOMAIN TextOf(calls[k].requests[1]) :
                    TextOf(calls[k].requests[1])[j] = "pure solid white background")
    /\ [][\A k \in DOMAIN calls : \A outcome \in GenerateOutcomes :
            (generateSettles(k, outcome) /\ AfterGenerate(outcome).ok) =>
                \A i \in Sessions :
                    IF images[i].id = calls[k].imageId
                    THEN /\ images'[i].history =
                              SubSeq(images[i].history, 1, images[i].historyIndex + 1) \o
                              << [ current     |-> AfterGenerate(outcome).value,
                                   adjustments |-> images[i].adjustments,
                                   filter      |-> images[i].filter ] >>
                         /\ Visible(images'[i]) = AtCursor(images'[i])
                         /\ images'[i].historyIndex = Len(images'[i].history) - 1
                    ELSE images'[i] = images[i]
       ]_vars

\* An AI result has just been committed over adjustments changed after the last
\* commit and a filter chosen before, on a session with an earlier entry.
C12_Witness ==
    \E i \in Sessions :
        /\ JustDid({"aiSuccess"}, images[i].id)
        /\ Len(images[i].history) = 3
        /\ images[i].historyIndex = 2
        /\ images[i].history[3].current # images[i].original
        /\ images[i].history[2].current = images[i].original
        /\ images[i].history[3].filter = FilterType.GRAYSCALE
        /\ images[i].history[3].adjustments # images[i].history[2].adjustments

\* A step that commits exactly one entry: one session's history becomes its
\* entries up to the cursor and one more, every other session is unchanged.
OneCommit ==
    /\ DOMAIN images' = DOMAIN images
    /\ \E i \in Sessions :
          /\ images'[i].history =
                SubSeq(images[i].history, 1, images[i].historyIndex + 1) \o
                << AtCursor(images'[i]) >>
          /\ images'[i].historyIndex = images[i].historyIndex + 1
          /\ \A j \in Sessions \ {i} : images'[j] = images[j]

\* The step that clears the processing flag made one commit and left no error,
\* or made no commit and left an error.
EndsOneWay ==
    (processing.isProcessing /\ ~processing'.isProcessing) =>
        \/ OneCommit /\ processing'.error = NULL_S
        \/ images' = images /\ processing'.error # NULL_S

\* No step but the settling of its awaits ends an invocation.
NotCancelled ==
    (calls # << >> /\ calls' # calls) =>
        lastOp'.op \in {"keySelected", "aiSuccess", "aiFailure"}

\* C13 as stated: every started AI invocation runs to completion or failure:
\* generateContent settling every call made of it, the processing flag
\* eventually is false again.
C13_EveryInvocationEnds ==
    processing.isProcessing ~> ~processing.isProcessing

\* C13, amended: an invocation cannot be cancelled; once it has called
\* generateContent, and that call settling, the processing flag eventually is
\* false again (an invocation waiting for the host's key selection keeps the flag
\* set for as long as the host does not settle it); the step that clears the
\* flag made one history commit and left the error null, or made no commit and
\* left the error non-null.
C13_InvocationEndsOnceCalled ==
    /\ (\E k \in DOMAIN calls : calls[k].pc = "generate") ~> ~processing.isProcessing
    /\ [][EndsOneWay /\ NotCancelled]_vars
    /\ [](processing.isProcessing <=> calls # << >>)

\* A second invocation has ended with a commit, the first having ended too.
C13_Witness ==
    /\ lastOp.op = "aiSuccess"
    /\ processing = [isProcessing |-> FALSE, error |-> NULL_S, mode |-> NULL_S]
    /\ calls = << >>
    /\ \E i \in Sessions : Len(images[i].history) = 3 /\ images[i].historyIndex = 2

-----------------------------------------------------------------------------
(* Properties of performImageEdit *)

\* C14 as stated: each invocation of performImageEdit makes exactly one call of
\* generateContent: one that has settled has made one.
C14_ExactlyOneCall ==
    \A k \in DOMAIN calls :
        calls[k].pc = "settled" => Len(calls[k].requests) = 1

\* C14, amended: each invocation makes at most one call of generateContent and
\* never makes it again: none while it waits for the key selection and none at
\* all when the key selection fails, exactly one otherwise, whether the call
\* fails or succeeds.
C14_AtMostOneCall ==
    /\ [](\A k \in DOMAIN calls :
            /\ calls[k].pc = "key" => calls[k].requests = << >>
            /\ calls[k].pc = "generate" => Len(calls[k].requests) = 1
            /\ calls[k].pc = "settled" =>
                  Len(calls[k].requests) = IF calls[k].outcome = NULL THEN 0 ELSE 1)
    /\ [][\A k \in DOMAIN calls \cap DOMAIN calls' :
            calls[k].requests # << >> => calls'[k].requests = calls[k].requests
       ]_vars

\* An invocation that went through the key selection has settled with the error
\* generateContent threw, after one call.
C14_Witness ==
    \E k \in DOMAIN calls :
        /\ calls[k].pc = "settled"
        /\ calls[k].mode = EditMode.ENHANCE
        /\ calls[k].outcome = Throws("Network error")
        /\ calls[k].result = Err("Network error")
        /\ Len(calls[k].requests) = 1

\* The fragments of a prompt.
Fragments(prompt) == { prompt[j] : j \in DOMAIN prompt }

\* C15: performImageEdit with REPLACE_BG and a background image always calls
\* generateContent with the higher-capability model, the compositing prompt that
\* names the first and the second image, and both images (the source first),
\* whatever the background colour.
C15_CustomBackgroundComposites ==
    \A k \in DOMAIN calls :
        ( /\ calls[k].mode = EditMode.REPLACE_BG
          /\ calls[k].options.backgroundImage # NULL
          /\ calls[k].requests # << >> ) =>
            LET request == calls[k].requests[1]
            IN  /\ request.model = PRO_MODEL
                /\ request.model # FLASH_MODEL
                /\ TextOf(request) = COMPOSITE_PROMPT
                /\ {"first image", "second image"} \subseteq Fragments(TextOf(request))
                /\ request.parts =
                      << InlinePart(calls[k].mimeType, calls[k].imageBase64.data),
                         InlinePart(calls[k].options.backgroundImage.mime,
                                    calls[k].options.backgroundImage.data),
                         TextPart(COMPOSITE_PROMPT) >>

\* generateContent has been called for REPLACE_BG with a background image and a
\* background colour.
C15_Witness ==
    \E k \in DOMAIN calls :
        /\ calls[k].mode = EditMode.REPLACE_BG
        /\ calls[k].options.backgroundImage # NULL
        /\ calls[k].options.backgroundColor = "#ffffff"
        /\ calls[k].pc = "generate"
        /\ Len(calls[k].requests[1].parts) = 3

\* What a request tells of the choice made: its prompt, model and output
\* configuration.
Chosen(request) ==
    [prompt |-> TextOf(request), model |-> request.model, imageConfig |-> request.config.imageConfig]

\* Which optional inputs are present.
Presence(options) ==
    [ image |-> options.backgroundImage # NULL,
      color |-> options.backgroundColor \notin {NULL_S, ""} ]

\* The requests made by the invocations in flight or settled, with their
\* arguments.
Sent == { k \in DOMAIN calls : calls[k].requests # << >> }

\* C16 as stated: the prompt, model and output configuration are a function of
\* the mode and, for REPLACE_BG, of which optional inputs are present: any other
\* options with the same inputs present give the same choice.
C16_ChoiceByKindAndPresence ==
    \A k \in Sent :
        \A backgroundColor \in AdapterColors, backgroundImage \in AdapterBackgrounds :
            LET options == [backgroundColor |-> backgroundColor,
                            backgroundImage |-> backgroundImage]
            IN  Presence(options) = Presence(calls[k].options) =>
                    Chosen(Request(calls[k].imageBase64, calls[k].mimeType,
                                   calls[k].mode, options))
                        = Chosen(calls[k].requests[1])

\* C16, amended: the choice is a function of the mode, of which optional inputs
\* are present (non-empty) for REPLACE_BG, and of the colour string itself when
\* the coloured-background prompt is chosen, which embeds it: REPLACE_BG with an
\* image gives the compositing prompt and the higher-capability model; with no
\* image and a colour the coloured-background prompt; with neither the scenic
\* prompt; ENHANCE the higher-capability model with the 4K configuration; every
\* case but ENHANCE has no output configuration, and every case but ENHANCE and
\* REPLACE_BG with an image has the default model.
C16_ChoiceByKindPresenceAndColor ==
    \A k \in Sent :
        LET mode    == calls[k].mode
            options == calls[k].options
            chosen  == Chosen(calls[k].requests[1])
            with(prompt, model, imageConfig) ==
                chosen = [prompt |-> prompt, model |-> model, imageConfig |-> imageConfig]
        IN  CASE mode = EditMode.PIXEL_ART -> with(PIXEL_ART_PROMPT, FLASH_MODEL, NULL)
              [] mode = EditMode.ANIME     -> with(ANIME_PROMPT, FLASH_MODEL, NULL)
              [] mode = EditMode.REMOVE_BG -> with(REMOVE_BG_PROMPT, FLASH_MODEL, NULL)
              [] mode = EditMode.REPLACE_BG /\ Presence(options).image ->
                    with(COMPOSITE_PROMPT, PRO_MODEL, NULL)
              [] mode = EditMode.REPLACE_BG /\ ~Presence(options).image
                                            /\ Presence(options).color ->
                    /\ with(ColorPrompt(options.backgroundColor), FLASH_MODEL, NULL)
                    /\ options.backgroundColor \in Fragments(chosen.prompt)
              [] mode = EditMode.REPLACE_BG /\ ~Presence(options).image
                                            /\ ~Presence(options).color ->
                    with(SCENIC_PROMPT, FLASH_MODEL, NULL)
              [] mode = EditMode.ENHANCE ->
                    with(ENHANCE_PROMPT, PRO_MODEL,
                         [imageSize |-> "4K", aspectRatio |-> "1:1"])
              [] OTHER -> with(<< >>, FLASH_MODEL, NULL)

\* generateContent has been called for REPLACE_BG with no background image and
\* the gradient as the colour.
C16_Witness ==
    \E k \in Sent :
        /\ calls[k].mode = EditMode.REPLACE_BG
        /\ calls[k].options.backgroundImage = NULL
        /\ calls[k].options.backgroundColor = "linear-gradient(to top, #fca5a5, #fcd34d)"
        /\ calls[k].requests[1].model = FLASH_MODEL
        /\ Len(calls[k].requests[1].parts) = 2

-----------------------------------------------------------------------------
(* Properties of the response scan *)

\* The parts of the first candidate of a response that has some.
PartsOf(response) == response.candidates.array[1].content.parts.array

\* The response has a first candidate with a list of parts.
HasParts(response) ==
    /\ response.candidates # NULL
    /\ response.candidates.array # << >>
    /\ response.candidates.array[1].content # NULL
    /\ response.candidates.array[1].content.parts # NULL

\* A response whose parts are all text, and that has some.
TextOnly(response) ==
    /\ HasParts(response)
    /\ PartsOf(response) # << >>
    /\ \A j \in DOMAIN PartsOf(response) : DOMAIN PartsOf(response)[j] = {"text"}

\* C17: a response whose parts are all text makes the invocation fail with the
\* fixed "no image data" message, shown as the global error, and leaves the
\* history of every session as it is.
C17_TextOnlyFails ==
    [][\A k \in DOMAIN calls : \A outcome \in GenerateOutcomes :
          ( /\ "response" \in DOMAIN outcome
            /\ TextOnly(outcome.response)
            /\ generateSettles(k, outcome) ) =>
              /\ AfterGenerate(outcome) = Err(NO_IMAGE_MESSAGE)
              /\ images' = images
              /\ processing' = [isProcessing |-> FALSE, error |-> NO_IMAGE_MESSAGE,
                                mode |-> NULL_S]
      ]_vars

\* An invocation on a session with a filter committed has just failed with the
\* "no image data" message.
C17_Witness ==
    /\ lastOp.op = "aiFailure"
    /\ processing.error = NO_IMAGE_MESSAGE
    /\ \E i \in Sessions :
          /\ images[i].id = lastOp.id
          /\ Len(images[i].history) = 2
          /\ images[i].filter = FilterType.GRAYSCALE
          /\ images[i].current = images[i].original

\* A response that carries no image payload: no candidate of it has a part
\* with a non-empty inline payload.
NoImagePayload(response) ==
    response.candidates # NULL =>
        \A c \in DOMAIN response.candidates.array :
            LET content == response.candidates.array[c].content
            IN  (content # NULL /\ content.parts # NULL) =>
                    \A j \in DOMAIN content.parts.array : ~HasImage(content.parts.array[j])

\* C18: every response that carries no image payload (the candidate list
\* absent or empty, the first candidate without content, no parts, an empty
\* list of parts, parts with no payload) makes performImageEdit fail with the
\* fixed "no image data" message, as a text-only response does.
C18_NoImageFailsWithFixedMessage ==
    \A k \in DOMAIN calls :
        ( /\ calls[k].pc = "settled"
          /\ calls[k].outcome # NULL
          /\ "response" \in DOMAIN calls[k].outcome
          /\ NoImagePayload(calls[k].outcome.response) ) =>
            calls[k].result = Err(NO_IMAGE_MESSAGE)

\* generateContent has returned an empty candidate list and performImageEdit
\* has thrown the TypeError of reading .content of undefined.
C18_Witness ==
    \E k \in DOMAIN calls :
        /\ calls[k].pc = "settled"
        /\ calls[k].outcome = Returns([candidates |-> Array(<< >>)])
        /\ calls[k].result = Err(TYPE_ERROR_MESSAGE)
        /\ calls[k].result # Err(NO_IMAGE_MESSAGE)

\* The parts of the first candidate that carry a non-empty inline payload.
ImageParts(response) ==
    IF HasParts(response)
    THEN { j \in DOMAIN PartsOf(response) : HasImage(PartsOf(response)[j]) }
    ELSE {}

\* C19: performImageEdit succeeds exactly when a part of the first candidate
\* carries a non-empty inline payload, and its result is the PNG data URL of the
\* payload of the first such part in response order: later image parts, parts
\* before it and other candidates do not change it.
C19_FirstImagePartIsTheResult ==
    \A k \in DOMAIN calls :
        ( /\ calls[k].pc = "settled"
          /\ calls[k].outcome # NULL
          /\ "response" \in DOMAIN calls[k].outcome ) =>
            LET response == calls[k].outcome.response
                images1  == ImageParts(response)
                first    == CHOOSE j \in images1 : \A i \in images1 : j <= i
            IN  /\ calls[k].result.ok <=> images1 # {}
                /\ calls[k].result.ok =>
                      calls[k].result.value =
                          [ mime |-> Mime("image", "png"),
                            data |-> PartsOf(response)[first].inlineData.data ]

\* The result is "r2" for a response whose parts are a text, the image "r2" and
\* the image "r1".
C19_Witness ==
    \E k \in DOMAIN calls :
        /\ calls[k].pc = "settled"
        /\ calls[k].outcome =
              Returns(Response(<< TextPart("sorry"), ImagePart("r2"), ImagePart("r1") >>))
        /\ calls[k].result = Ok([mime |-> Mime("image", "png"), data |-> "r2"])

-----------------------------------------------------------------------------
(* Properties of the crop *)

\* A source rectangle: the four fractions drawImage is given after the image.
CropRect(x, y, w, h) == [sx |-> x, sy |-> y, sWidth |-> w, sHeight |-> h]

RectOf(drawn) == CropRect(drawn.sx, drawn.sy, drawn.sWidth, drawn.sHeight)

\* The rectangle the claim gives for a width x height source and the ratio r.
ExpectedCrop(width, height, r) ==
    LET W == FracOfInt(width)
        H == FracOfInt(height)
    IN  IF FracGreater(r, FracDiv(W, H))
        THEN CropRect(FracOfInt(0), FracHalf(FracSub(H, FracDiv(W, r))),
                      W, FracDiv(W, r))
        ELSE IF FracGreater(FracDiv(W, H), r)
        THEN CropRect(FracHalf(FracSub(W, FracMul(H, r))), FracOfInt(0),
                      FracMul(H, r), H)
        ELSE CropRect(FracOfInt(0), FracOfInt(0), W, H)

\* 0 <= x, 0 <= y, x + w <= width and y + h <= height, with w and h positive.
InsideSource(rect, width, height) ==
    /\ rect.sx.num >= 0
    /\ rect.sy.num >= 0
    /\ rect.sWidth.num > 0
    /\ rect.sHeight.num > 0
    /\ ~FracGreater(rect.sx, FracSub(FracOfInt(width), rect.sWidth))
    /\ ~FracGreater(rect.sy, FracSub(FracOfInt(height), rect.sHeight))

\* C20: whenever an export draws a width x height source under a target ratio r,
\* the source rectangle is the full width with height width/r centred vertically
\* if r > width/height, the full height with width height*r centred horizontally
\* if r < width/height, and the whole source if r = width/height; 800x600 with
\* r = 1 gives x = 100, y = 0, w = 600, h = 600; the rectangle lies inside the
\* source.
C20_CropRectangle ==
    [][ \A k \in DOMAIN renders, size \in SourceSizes :
          ( /\ imgOnload(k, size.width, size.height)
            /\ renders[k].cropConfig.aspectRatio # NULL )
          => LET r    == renders[k].cropConfig.aspectRatio
                 rect == RectOf(canvas'.drawn)
             IN  /\ rect = ExpectedCrop(size.width, size.height, r)
                 /\ InsideSource(rect, size.width, size.height)
                 /\ ( size = [width |-> 800, height |-> 600] /\ r = Frac(1, 1)
                      => rect = CropRect(FracOfInt(100), FracOfInt(0),
                                         FracOfInt(600), FracOfInt(600)) ) ]_vars

\* An 800x600 source was drawn under the square ratio.
C20_Witness ==
    /\ canvas.drawn # NULL
    /\ canvas.drawn.image.width = 800
    /\ canvas.drawn.image.height = 600
    /\ RectOf(canvas.drawn) = CropRect(FracOfInt(100), FracOfInt(0),
                                       FracOfInt(600), FracOfInt(600))
    /\ canvas.width = 600
    /\ canvas.height = 600

-----------------------------------------------------------------------------
(* Properties of the filter chain *)

\* The preset the claim gives for a filter; it names none for Blur.
PresetOf(filter) ==
    IF filter = FilterType.GRAYSCALE THEN << FilterFn("grayscale", 100, "%") >>
    ELSE IF filter = FilterType.SEPIA THEN << FilterFn("sepia", 100, "%") >>
    ELSE IF filter = FilterType.VINTAGE
    THEN << FilterFn("sepia", 50, "%"), FilterFn("contrast", 120, "%"),
            FilterFn("brightness", 90, "%") >>
    ELSE << >>

\* C21: whenever an export draws, the functions of ctx.filter are brightness,
\* contrast, saturate and blur of the exported session's adjustments, in this
\* order, followed by the preset of its filter (grayscale 100% for Grayscale,
\* sepia 100% for Sepia, sepia 50% contrast 120% brightness 90% for Vintage,
\* nothing for Normal) and by nothing else; they are the functions of the
\* preview's filter string for the same adjustments and filter.
C21_FilterChain ==
    [][ \A k \in DOMAIN renders, size \in SourceSizes :
          imgOnload(k, size.width, size.height)
          => LET img   == renders[k].activeImage
                 adj   == img.adjustments
                 chain == FilterFunctions(canvas'.filter)
             IN  /\ chain =
                       << FilterFn("brightness", adj.brightness, "%"),
                          FilterFn("contrast", adj.contrast, "%"),
                          FilterFn("saturate", adj.saturation, "%"),
                          FilterFn("blur", adj.blur, "px") >>
                       \o PresetOf(img.filter)
                 /\ chain = FilterFunctions(getCssFilterString(adj, img.filter)) ]_vars

\* A Vintage session with moved sliders was exported.
C21_Witness ==
    /\ canvas.drawn # NULL
    /\ activeImage # NULL
    /\ activeImage.filter = FilterType.VINTAGE
    /\ activeImage.adjustments =
          [brightness |-> 150, contrast |-> 120, saturation |-> 80, blur |-> 10]
    /\ Len(FilterFunctions(canvas.filter)) = 7
    /\ FilterFunctions(canvas.filter) =
          FilterFunctions(getCssFilterString(activeImage.adjustments, activeImage.filter))

-----------------------------------------------------------------------------
(* Properties of the error *)

\* A step in which a filter commit, an undo or a redo changed a session.
SuccessfulEdit ==
    /\ lastOp'.op \in { "setFilter", "undo", "redo" }
    /\ lastOp'.done
    /\ images' # images

\* A step in which handleAIEdit started an attempt.
AttemptStarted ==
    /\ lastOp'.op = "handleAIEdit"
    /\ lastOp'.done
    /\ Len(calls') = Len(calls) + 1

\* C22: a step that is a successful action (a filter commit, an undo or a redo
\* that changed a session, an AI call that succeeded) or the start of a new AI
\* attempt leaves the process-wide error null.
C22_ErrorClearedByNextSuccess ==
    [][ (SuccessfulEdit \/ AttemptStarted \/ lastOp'.op = "aiSuccess")
        => processing'.error = NULL_S ]_vars

\* A filter was committed after a failed invocation, and the error of the
\* failure is still set.
C22_Witness ==
    /\ lastOp.op = "setFilter"
    /\ lastOp.done
    /\ processing.error # NULL_S
    /\ ~processing.isProcessing

\* The start of an attempt and the success of one leave the error null.
ErrorClearedByAttempt ==
    [][ (AttemptStarted \/ lastOp'.op = "aiSuccess")
        => processing'.error = NULL_S ]_vars

-----------------------------------------------------------------------------
(* Properties of the upload *)

\* The session the claim gives for an image file.
SeededSession(file) ==
    LET url == [mime |-> file.type, data |-> file.data]
    IN  [ original     |-> url,
          current      |-> url,
          adjustments  |-> [brightness |-> 100, contrast |-> 100,
                            saturation |-> 100, blur |-> 0],
          filter       |-> "Normal",
          history      |-> << [ current     |-> url,
                                adjustments |-> [brightness |-> 100, contrast |-> 100,
                                                 saturation |-> 100, blur |-> 0],
                                filter      |-> "Normal" ] >>,
          historyIndex |-> 0 ]

\* The fields of a session the claim speaks of.
SeedFields(img) ==
    [ k \in { "original", "current", "adjustments", "filter", "history",
              "historyIndex" } |-> img[k] ]

\* C23: a file selection starts one read for each of its files whose type is
\* image/*, in their order, and none for any other file; it creates no session
\* and sets no error.  Each read that completes appends exactly one session with
\* current = original = the file's data URL, adjustments (100, 100, 100, 0),
\* filter Normal, a history of the one entry equal to that state and
\* historyIndex 0, changes no other session and sets no error.
C23_UploadSeedsSessions ==
    /\ [][ \A files \in FileSelections :
             handleFileUpload(files)
             => /\ images' = images
                /\ processing' = processing
                /\ LET started == SubSeq(pendingReads', Len(pendingReads) + 1,
                                         Len(pendingReads'))
                   IN  /\ SubSeq(pendingReads', 1, Len(pendingReads)) = pendingReads
                       /\ [ k \in DOMAIN started |-> started[k].file ]
                            = SelectSeq(files, LAMBDA f : f.type.top = "image") ]_vars
    /\ [][ \A k \in DOMAIN pendingReads :
             readerOnload(k)
             => /\ Len(images') = Len(images) + 1
                /\ SubSeq(images', 1, Len(images)) = images
                /\ SeedFields(images'[Len(images')]) = SeededSession(pendingReads[k].file)
                /\ Len(pendingReads') = Len(pendingReads) - 1
                /\ processing' = processing ]_vars
    /\ [](\A i \in DOMAIN images : images[i].mimeType.top = "image")

\* Two image files were read: two seeded sessions and no error.
C23_Witness ==
    /\ lastOp.op = "onload"
    /\ Len(images) = 2
    /\ pendingReads = << >>
    /\ \A i \in DOMAIN images :
          /\ images[i].current = images[i].original
          /\ images[i].history = << Visible(images[i]) >>
          /\ images[i].historyIndex = 0
    /\ processing.error = NULL_S

-----------------------------------------------------------------------------
(* Properties of the seed *)

\* C24: in every reachable state the first history entry of every session is
\* its seed snapshot (the original image, the default adjustments, filter
\* Normal); every step keeps every session, in its place and with its id, its
\* original and its first history entry.
C24_SeedIsKept ==
    /\ [](\A i \in DOMAIN images :
            /\ Len(images[i].history) >= 1
            /\ images[i].history[1] =
                  [ current     |-> images[i].original,
                    adjustments |-> [brightness |-> 100, contrast |-> 100,
                                     saturation |-> 100, blur |-> 0],
                    filter      |-> "Normal" ])
    /\ [][ \A i \in DOMAIN images :
             /\ i \in DOMAIN images'
             /\ images'[i].id = images[i].id
             /\ images'[i].original = images[i].original
             /\ images'[i].history[1] = images[i].history[1] ]_vars

\* A session that holds a filter commit and an AI result, shown undone to the
\* first of them, still starts with its seed.
C24_Witness ==
    \E i \in DOMAIN images :
        /\ Len(images[i].history) >= 3
        /\ images[i].historyIndex = 1
        /\ images[i].history[3].current # images[i].original
        /\ images[i].history[1] = SeedOf(images[i])

-----------------------------------------------------------------------------
(* Properties of the target of an AI call *)

\* C25: an invocation is bound to the session that is active when handleAIEdit
\* starts it; when its call succeeds, that session gains the result as one
\* entry after its cursor, whichever session is active by then, and every other
\* session, the one active at completion included, is left as it was.
C25_ResultGoesToStartingSession ==
    /\ [][ \A mode \in ModeInputs, aistudio \in BOOLEAN :
             (handleAIEdit(mode, aistudio) /\ Len(calls') = Len(calls) + 1)
             => calls'[Len(calls')].imageId = activeImageId ]_vars
    /\ [][ \A k \in DOMAIN calls, outcome \in GenerateOutcomes :
             (generateSettles(k, outcome) /\ AfterGenerate(outcome).ok)
             => \A i \in DOMAIN images :
                  IF images[i].id = calls[k].imageId
                  THEN /\ Len(images'[i].history) = images[i].historyIndex + 2
                       /\ images'[i].history[Len(images'[i].history)].current
                             = AfterGenerate(outcome).value
                       /\ images'[i].current = AfterGenerate(outcome).value
                  ELSE images'[i] = images[i] ]_vars

\* A result has just been committed to a session that is no longer the active
\* one; the active session holds its seed only.
C25_Witness ==
    /\ lastOp.op = "aiSuccess"
    /\ activeImage # NULL
    /\ lastOp.id # activeImageId
    /\ Len(activeImage.history) = 1
    /\ \E i \in DOMAIN images :
          /\ images[i].id = lastOp.id
          /\ Len(images[i].history) = 2
          /\ images[i].current # images[i].original

-----------------------------------------------------------------------------
(* Properties of edits made during an AI call *)

\* The entries of a session up to its cursor.
UpToCursor(img) == SubSeq(img.history, 1, img.historyIndex + 1)

\* C26: while a call is in flight, no step moves the cursor of its session back
\* or changes an entry up to the cursor, so an entry committed during the flight
\* stays; when the call succeeds, the history of its session becomes the
\* entries up to the cursor, the entries committed during the flight among
\* them, followed by the AI entry, whose adjustments and filter are those the
\* session shows at that moment.
C26_EditsInFlightAreKept ==
    /\ [][ \A k \in DOMAIN calls, i \in DOMAIN images :
             (images[i].id = calls[k].imageId /\ calls' # << >>)
             => /\ images'[i].historyIndex >= images[i].historyIndex
                /\ SubSeq(images'[i].history, 1, images[i].historyIndex + 1)
                      = UpToCursor(images[i])
                /\ lastOp'.op = "setFilter" /\ lastOp'.done /\ lastOp'.id = images[i].id
                      => /\ images'[i].history =
                               Append(UpToCursor(images[i]), Visible(images'[i]))
                         /\ images'[i].historyIndex = images[i].historyIndex + 1 ]_vars
    /\ [][ \A k \in DOMAIN calls, outcome \in GenerateOutcomes :
             (generateSettles(k, outcome) /\ AfterGenerate(outcome).ok)
             => \A i \in DOMAIN images :
                  images[i].id = calls[k].imageId
                  => /\ images'[i].history =
                           Append(UpToCursor(images[i]),
                                  [ current     |-> AfterGenerate(outcome).value,
                                    adjustments |-> images[i].adjustments,
                                    filter      |-> images[i].filter ])
                     /\ images'[i].historyIndex = images[i].historyIndex + 1
                     /\ images'[i].adjustments = images[i].adjustments
                     /\ images'[i].filter = images[i].filter ]_vars

\* A filter has just been committed on the session of a call that waits for
\* generateContent, after a slider of that session was moved.
C26_Witness ==
    /\ calls # << >>
    /\ calls[1].pc = "generate"
    /\ lastOp.op = "setFilter"
    /\ lastOp.done
    /\ lastOp.id = calls[1].imageId
    /\ activeImage # NULL
    /\ activeImage.id = calls[1].imageId
    /\ activeImage.historyIndex = Len(activeImage.history) - 1
    /\ activeImage.adjustments # DEFAULT_ADJUSTMENTS

-----------------------------------------------------------------------------
(* Properties of the frame *)

\* The sessions a step changes: their history, cursor or visible triple (or
\* any other field) differs after the step.
ChangedSessions == { i \in DOMAIN images : images'[i] # images[i] }

\* C27: every step keeps every session in place and changes at most one of
\* them: all others keep their history, cursor and visible triple.  A commit,
\* an undo, a redo and an adjustment change only the active session, an AI
\* result only the session of its call; a crop-setting change and an
\* active-image switch change no session.
C27_AtMostOneSessionChanges ==
    [][ /\ DOMAIN images \subseteq DOMAIN images'
        /\ Cardinality(ChangedSessions) <= 1
        /\ \A i \in DOMAIN images :
             ( /\ lastOp'.op \in { "setFilter", "undo", "redo", "updateAdjustment" }
               /\ images[i].id # activeImageId )
             => /\ images'[i].history = images[i].history
                /\ images'[i].historyIndex = images[i].historyIndex
                /\ Visible(images'[i]) = Visible(images[i])
        /\ \A i \in DOMAIN images :
             (lastOp'.op = "aiSuccess" /\ images[i].id # lastOp'.id)
             => images'[i] = images[i]
        /\ lastOp'.op \in { "setCropConfig", "setActiveImageId" } => images' = images
      ]_vars

\* Two sessions; a filter has just been committed on the active one, and the
\* other one holds its seed only.
C27_Witness ==
    /\ Len(images) = 2
    /\ lastOp.op = "setFilter"
    /\ lastOp.done
    /\ lastOp.id = activeImageId
    /\ cropConfig.aspectRatio # NULL
    /\ \E i \in DOMAIN images :
          /\ images[i].id # activeImageId
          /\ Len(images[i].history) = 1
          /\ Visible(images[i]) = SeedOf(images[i])
    /\ Len(activeImage.history) >= 2

-----------------------------------------------------------------------------
(* Properties of the custom background *)

\* C28: a call that succeeds, whatever its mode, leaves the custom background
\* image null; a call that fails, at the key selection or at generateContent,
\* leaves it as it was; the background image an invocation passes on is the
\* one selected when handleAIEdit started it, and a request made later (after
\* the key selection) still carries that one.
C28_CustomBackgroundReset ==
    /\ [][ \A k \in DOMAIN calls, outcome \in SettleOutcomes :
             generateSettles(k, outcome)
             => IF AfterGenerate(outcome).ok
                THEN customBgImage' = NULL
                ELSE customBgImage' = customBgImage ]_vars
    /\ [][ \A k \in DOMAIN calls, message \in AdapterErrors :
             keySelectionFails(k, message) => customBgImage' = customBgImage ]_vars
    /\ [][ \A mode \in ButtonModes, aistudio \in BOOLEAN :
             (handleAIEdit(mode, aistudio) /\ Len(calls') = Len(calls) + 1)
             => calls'[Len(calls')].options.backgroundImage = customBgImage ]_vars
    /\ [][ \A k \in DOMAIN calls :
             keySelected(k)
             => /\ calls'[k].options = calls[k].options
                /\ calls'[k].requests =
                      << Request(calls[k].imageBase64, calls[k].mimeType,
                                 calls[k].mode, calls[k].options) >> ]_vars
    /\ [](\A k \in DOMAIN calls :
             (calls[k].mode = EditMode.REPLACE_BG /\ calls[k].requests # << >>)
             => IF calls[k].options.backgroundImage = NULL
                THEN Len(calls[k].requests[1].parts) = 2
                ELSE /\ Len(calls[k].requests[1].parts) = 3
                     /\ calls[k].requests[1].parts[2].inlineData.data
                           = stripBase64Prefix(calls[k].options.backgroundImage))

\* An invocation has just failed and the custom background image is still
\* selected.
C28_Witness ==
    /\ lastOp.op = "aiFailure"
    /\ customBgImage # NULL
    /\ processing.error # NULL_S
    /\ calls = << >>

=============================================================================
